---- MODULE Spec2Model ----
(***************************************************************************)
(* A model of the SDG scoring engine of nlp_college:                       *)
(*   utils/rule_based_matcher.py   RuleBasedMatcher                        *)
(*   utils/model_loader.py         ModelLoader                             *)
(*   utils/semantic_matcher.py     SemanticMatcher                         *)
(*   utils/explainable_output.py   ExplainableOutput                       *)
(*   api/index.py                  analyze_sdgs (zero-shot variant)        *)
(*                                                                         *)
(* Numbers.  A confidence is a Python float; here it is an integer number  *)
(* of ten-thousandths, so 0.3 is 3000 and 1.0 is 10000.                    *)
(*                                                                         *)
(* Text.  A text is a sequence of words; a keyword or pattern is a         *)
(* sequence of words too ("low income" is <<"low", "income">>).            *)
(***************************************************************************)
EXTENDS Integers, Sequences, FiniteSets, TLC

(***************************************************************************)
(* Generic helpers                                                         *)
(***************************************************************************)
Range(s) == {s[i] : i \in 1..Len(s)}

Min(a, b) == IF a <= b THEN a ELSE b

Max(a, b) == IF a >= b THEN a ELSE b

\* Body(e), with e evaluated once.  (TLC evaluates an operator's argument
\* anew at each of its uses; a bound variable holds a value.)
Bind(e, Body(_)) == CHOOSE r \in {Body(v) : v \in {e}} : TRUE

\* s[:n]
Take(s, n) == Bind(s, LAMBDA v : SubSeq(v, 1, Min(n, Len(v))))

\* [x for x in s if Keep(x)]
Filter(s, Keep(_)) ==
    Bind(s, LAMBDA v :
        LET F[i \in 0..Len(v)] ==
                IF i = 0 THEN <<>>
                ELSE IF Keep(v[i]) THEN Append(F[i - 1], v[i]) ELSE F[i - 1]
        IN F[Len(v)])

\* list.sort(key=Key, reverse=True) and sorted(..., key=Key, reverse=True):
\* Python's sort is stable, and reverse=True keeps the original order of equal
\* elements.  The element at place i goes after every element with a greater
\* key and after the earlier elements with an equal key.
SortDesc(s, Key(_)) ==
    Bind(s, LAMBDA v :
    Bind([i \in 1..Len(v) |-> Key(v[i])], LAMBDA key :
        LET Place(i) ==
                1 + Cardinality({j \in 1..Len(v) :
                                    \/ key[j] > key[i]
                                    \/ key[j] = key[i] /\ j < i})
        IN [r \in 1..Len(v) |-> v[CHOOSE i \in 1..Len(v) : Place(i) = r]]))

(***************************************************************************)
(* Text                                                                    *)
(***************************************************************************)
\* str.lower() on one word: the words of the model that hold a capital.
LowerWord(w) ==
    CASE w = "Poverty" -> "poverty"
      [] w = "This" -> "this"
      [] w = "Climate" -> "climate"
      [] OTHER -> w

\* text.lower()
Lower(text) == Bind(text, LAMBDA t : [i \in 1..Len(t) |-> LowerWord(t[i])])

\* The words of the model that hold another word of the model inside them:
\* <<inner, outer, at the start of outer, at the end of outer>>.
Infixes ==
    { <<"health", "healthcare", TRUE, FALSE>>,
      <<"poor", "poorly", TRUE, FALSE>>,
      <<"land", "farmland", FALSE, TRUE>> }

HasInfix(word, k) == word = k \/ \E x \in Infixes : x[1] = k /\ x[2] = word

HasPrefix(word, k) == word = k \/ \E x \in Infixes : x[1] = k /\ x[2] = word /\ x[3]

HasSuffix(word, k) == word = k \/ \E x \in Infixes : x[1] = k /\ x[2] = word /\ x[4]

\* `kw in text`: the keyword is a substring of the text, wherever it falls,
\* also inside a longer word.
Contains(text, kw) ==
    \E t \in {text} :
        LET n == Len(kw) IN
        /\ n >= 1
        /\ \E i \in 1..(Len(t) - n + 1) :
              IF n = 1 THEN HasInfix(t[i], kw[1])
              ELSE /\ HasSuffix(t[i], kw[1])
                   /\ HasPrefix(t[i + n - 1], kw[n])
                   /\ \A j \in 2..(n - 1) : t[i + j - 1] = kw[j]

\* The search without the word boundaries, re.search(re.escape(pattern), text):
\* the pattern is a substring, and the empty pattern is found in every text.
SearchSubstring(pattern, text) == pattern = <<>> \/ Contains(text, pattern)

\* re.search(r'\b' + re.escape(pattern) + r'\b', text): the pattern stands in
\* the text as whole words; " " in a text is a run of blanks, and the empty
\* pattern (\b\b) is found wherever a word starts.
SearchWords(pattern, text) ==
    \E p \in {pattern}, t \in {text} :
        IF Len(p) = 0 THEN \E i \in 1..Len(t) : t[i] # " "
        ELSE \E i \in 1..(Len(t) - Len(p) + 1) :
                \A j \in 1..Len(p) : t[i + j - 1] = p[j]

(***************************************************************************)
(* RuleBasedMatcher (utils/rule_based_matcher.py)                          *)
(***************************************************************************)
\* A cell of patterns_df as the default table builds it: a Python list.
ListCell(items) == [kind |-> "list", items |-> items, words |-> <<>>]

\* A cell of patterns_df as pd.read_csv builds it: one string, here its words
\* with "," for a comma and " " for a blank that follows a comma.
StrCell(words) == [kind |-> "str", items |-> <<>>, words |-> words]

\* An empty cell of the file: pd.read_csv reads it as NaN, a float.
NanCell == [kind |-> "nan", items |-> <<>>, words |-> <<>>]

\* _create_default_patterns: the built-in table, three categories.
DefaultPatterns ==
    << [sdg_number |-> 1, sdg_name |-> "No Poverty",
        inclusion_patterns |-> ListCell(<< <<"poverty">>, <<"poor">>,
            <<"low", "income">>, <<"financial", "hardship">>,
            <<"economic", "disadvantage">>, <<"income", "inequality">> >>),
        exclusion_patterns |-> ListCell(<< <<"rich">>, <<"wealthy">>,
            <<"high", "income">>, <<"luxury">> >>)],
       [sdg_number |-> 2, sdg_name |-> "Zero Hunger",
        inclusion_patterns |-> ListCell(<< <<"hunger">>, <<"food", "security">>,
            <<"malnutrition">>, <<"famine">>, <<"food", "shortage">>,
            <<"agriculture">>, <<"crop", "production">> >>),
        exclusion_patterns |-> ListCell(<< <<"food", "waste">>,
            <<"overconsumption">>, <<"obesity">> >>)],
       [sdg_number |-> 3, sdg_name |-> "Good Health and Well-being",
        inclusion_patterns |-> ListCell(<< <<"health">>, <<"well-being">>,
            <<"disease", "prevention">>, <<"healthcare">>, <<"medical">>,
            <<"vaccination">>, <<"mental", "health">>, <<"hygiene">> >>),
        exclusion_patterns |-> ListCell(<< <<"disease", "outbreak">>,
            <<"pandemic">>, <<"health", "crisis">> >>)] >>

\* pd.read_csv(patterns_path): a pattern file with the patterns of a category
\* in one comma-separated cell; "poverty, poor" holds a blank after the comma.
CsvPatterns ==
    << [sdg_number |-> 1, sdg_name |-> "No Poverty",
        inclusion_patterns |-> StrCell(<<"poverty", ",", " ", "poor", ",",
            "low", "income", ",", "financial", "hardship", ",",
            "economic", "disadvantage">>),
        exclusion_patterns |-> StrCell(<<"rich", ",", "wealthy">>)],
       [sdg_number |-> 2, sdg_name |-> "Zero Hunger",
        inclusion_patterns |-> StrCell(<<"hunger", ",", "malnutrition", ",",
            "agriculture">>),
        exclusion_patterns |-> StrCell(<<"obesity">>)],
       [sdg_number |-> 3, sdg_name |-> "Good Health and Well-being",
        inclusion_patterns |-> StrCell(<<"health", ",", "healthcare", ",",
            "medical">>),
        exclusion_patterns |-> StrCell(<<"pandemic">>)],
       [sdg_number |-> 13, sdg_name |-> "Climate Action",
        inclusion_patterns |-> StrCell(<<"climate", ",", "carbon">>),
        exclusion_patterns |-> NanCell] >>

\* _load_patterns: the file's table, or the default table when the file is
\* not found.
_load_patterns(file_found) == IF file_found THEN CsvPatterns ELSE DefaultPatterns

\* str.split(','): the pieces between the commas.
Split(words) ==
    LET F[i \in 0..Len(words)] ==
            IF i = 0 THEN << <<>> >>
            ELSE Bind(F[i - 1], LAMBDA pieces :
                    IF words[i] = ","
                    THEN Append(pieces, <<>>)
                    ELSE [pieces EXCEPT ![Len(pieces)] = Append(@, words[i])])
    IN F[Len(words)]

\* str.strip(): without the blanks at both ends.
RECURSIVE Strip(_)
Strip(pattern) ==
    IF pattern = <<>> THEN pattern
    ELSE IF Head(pattern) = " " THEN Strip(Tail(pattern))
    ELSE IF pattern[Len(pattern)] = " "
         THEN Strip(SubSeq(pattern, 1, Len(pattern) - 1))
         ELSE pattern

\* row[...].split(',') if isinstance(row[...], str) else []
PatternsOf(cell) == IF cell.kind = "str" THEN Split(cell.words) ELSE <<>>

\* The patterns of a cell found in the lowercased text.
MatchesIn(cell, text_lower) ==
    LET Found(pattern) == SearchWords(Strip(pattern), text_lower)
    IN Filter(PatternsOf(cell), Found)

InclusionWeight == 3000

ExclusionWeight == 5000

RuleThreshold == 1000

ScopeBroadAbove == 2

RuleTopN == 10

\* The exclusion matches left out of the score.
RuleConfidenceInclusionOnly(n_inclusion, n_exclusion) == n_inclusion * InclusionWeight

\* max(0.0, len(inclusion_matches) * 0.3 - len(exclusion_matches) * 0.5)
RuleConfidence(n_inclusion, n_exclusion) ==
    Max(0, n_inclusion * InclusionWeight - n_exclusion * ExclusionWeight)

\* The matches (inclusion, exclusion) within the model's bounds for which the
\* float n_inclusion * 0.3 - n_exclusion * 0.5 lies above the real number it
\* stands for: 7 * 0.3 - 4 * 0.5 is 0.10000000000000009, while 2 * 0.3 - 1 * 0.5
\* is 0.09999999999999998.
RoundedUp == {<<7, 4>>}

\* `if confidence > 0.1`, on floats.
AboveThreshold(n_inclusion, n_exclusion) ==
    \/ RuleConfidence(n_inclusion, n_exclusion) > RuleThreshold
    \/ /\ RuleConfidence(n_inclusion, n_exclusion) = RuleThreshold
       /\ <<n_inclusion, n_exclusion>> \in RoundedUp

\* The record match_sdgs builds for one row of the table.
RuleRecord(row, text_lower) ==
    Bind(MatchesIn(row.inclusion_patterns, text_lower), LAMBDA inclusion_matches :
    Bind(MatchesIn(row.exclusion_patterns, text_lower), LAMBDA exclusion_matches :
       [sdg_number |-> row.sdg_number,
        sdg_name |-> row.sdg_name,
        confidence |-> RuleConfidence(Len(inclusion_matches), Len(exclusion_matches)),
        matched_keywords |-> inclusion_matches,
        excluded_keywords |-> exclusion_matches,
        inclusion_scope |-> IF Len(inclusion_matches) > ScopeBroadAbove
                            THEN "broad" ELSE "narrow"]))

ConfidenceOf(r) == r.confidence

\* The first ten records in the table's order, the sort left out.
match_sdgs_unsorted(df, txt) ==
    Bind(Lower(txt), LAMBDA text_lower :
        LET records == [i \in 1..Len(df) |-> RuleRecord(df[i], text_lower)]
            Passes(r) == AboveThreshold(Len(r.matched_keywords),
                                        Len(r.excluded_keywords))
        IN Take(Filter(records, Passes), RuleTopN))

\* RuleBasedMatcher.match_sdgs
match_sdgs(df, txt) ==
    Bind(Lower(txt), LAMBDA text_lower :
        LET records == [i \in 1..Len(df) |-> RuleRecord(df[i], text_lower)]
            Passes(r) == AboveThreshold(Len(r.matched_keywords),
                                        Len(r.excluded_keywords))
        IN Take(SortDesc(Filter(records, Passes), ConfidenceOf), RuleTopN))

(***************************************************************************)
(* ModelLoader (utils/model_loader.py)                                     *)
(***************************************************************************)
\* self.sdg_labels, each 'SDG n: name' as its two sides of the ': '.
sdg_labels ==
    << <<"SDG 1", "No Poverty">>, <<"SDG 2", "Zero Hunger">>,
       <<"SDG 3", "Good Health and Well-being">>, <<"SDG 4", "Quality Education">>,
       <<"SDG 5", "Gender Equality">>, <<"SDG 6", "Clean Water and Sanitation">>,
       <<"SDG 7", "Affordable and Clean Energy">>,
       <<"SDG 8", "Decent Work and Economic Growth">>,
       <<"SDG 9", "Industry, Innovation and Infrastructure">>,
       <<"SDG 10", "Reduced Inequality">>,
       <<"SDG 11", "Sustainable Cities and Communities">>,
       <<"SDG 12", "Responsible Consumption and Production">>,
       <<"SDG 13", "Climate Action">>, <<"SDG 14", "Life Below Water">>,
       <<"SDG 15", "Life on Land">>,
       <<"SDG 16", "Peace, Justice and Strong Institutions">>,
       <<"SDG 17", "Partnerships for the Goals">> >>

\* label.split(': ', 1)[1]
LabelName(label) == label[2]

\* The sdg_keywords table of _extract_keywords.
sdg_keywords(sdg_number) ==
    CASE sdg_number = 1 -> << <<"poverty">>, <<"poor">>, <<"low", "income">>,
                              <<"financial", "hardship">>, <<"economic", "disadvantage">> >>
      [] sdg_number = 2 -> << <<"hunger">>, <<"food", "security">>, <<"malnutrition">>,
                              <<"famine">>, <<"agriculture">>, <<"crop">> >>
      [] sdg_number = 3 -> << <<"health">>, <<"well-being">>, <<"disease">>, <<"medical">>,
                              <<"healthcare">>, <<"hygiene">>, <<"mental", "health">> >>
      [] sdg_number = 4 -> << <<"education">>, <<"school">>, <<"learning">>, <<"literacy">>,
                              <<"educational">>, <<"student">>, <<"teacher">> >>
      [] sdg_number = 5 -> << <<"gender">>, <<"equality">>, <<"women">>, <<"female">>,
                              <<"discrimination">>, <<"empowerment">> >>
      [] sdg_number = 6 -> << <<"water">>, <<"sanitation">>, <<"clean", "water">>,
                              <<"hygiene">>, <<"wastewater">>, <<"water", "quality">> >>
      [] sdg_number = 7 -> << <<"energy">>, <<"renewable">>, <<"solar">>, <<"wind">>,
                              <<"electricity">>, <<"affordable", "energy">> >>
      [] sdg_number = 13 -> << <<"climate">>, <<"carbon">>, <<"emission">>,
                               <<"global", "warming">>, <<"sustainability">>,
                               <<"environmental">> >>
      [] sdg_number = 15 -> << <<"forest">>, <<"biodiversity">>, <<"ecosystem">>,
                               <<"wildlife">>, <<"conservation">>, <<"land">> >>
      [] OTHER -> <<>>

MaxKeywords == 5

\* The keywords of a list that occur in the lowercased text.
KeywordsIn(keywords, text_lower) ==
    LET Occurs(kw) == Contains(text_lower, kw) IN Filter(keywords, Occurs)

\* ModelLoader._extract_keywords
_extract_keywords(txt, sdg_number) ==
    Bind(Lower(txt), LAMBDA text_lower :
        Take(KeywordsIn(sdg_keywords(sdg_number), text_lower), MaxKeywords))

HighLevel == 7000

MediumLevel == 4000

ExplanationTerms == 3

\* ModelLoader._generate_explanation: the template chosen and the key terms.
_generate_explanation(sdg_number, confidence, txt) ==
    [template |-> IF confidence >= HighLevel THEN "high"
                  ELSE IF confidence >= MediumLevel THEN "medium" ELSE "low",
     key_terms |-> Take(_extract_keywords(txt, sdg_number), ExplanationTerms)]

\* The core categories of _fallback_prediction with their keywords, in the
\* order of the sdg_matches dict.
FallbackKeywords ==
    << [sdg_num |-> 1, keywords |-> << <<"poverty">>, <<"poor">>, <<"low", "income">> >>],
       [sdg_num |-> 2, keywords |-> << <<"hunger">>, <<"food", "security">>,
                                       <<"malnutrition">> >>],
       [sdg_num |-> 3, keywords |-> << <<"health">>, <<"medical">>, <<"disease">>,
                                       <<"well-being">> >>],
       [sdg_num |-> 13, keywords |-> << <<"climate">>, <<"carbon">>, <<"emission">>,
                                        <<"global", "warming">> >>],
       [sdg_num |-> 15, keywords |-> << <<"forest">>, <<"biodiversity">>, <<"ecosystem">>,
                                        <<"wildlife">> >>] >>

\* The keyword list every fallback record's matched_keywords is taken from.
FallbackMatchedKeywords ==
    << <<"poverty">>, <<"food", "security">>, <<"health">>, <<"climate">>, <<"forest">> >>

FallbackWeight == 3000

FallbackCap == 9000

\* How often a keyword occurs in the text.
OccurrencesIn(text_lower, kw) ==
    Cardinality({i \in 1..Len(text_lower) :
                    /\ i + Len(kw) - 1 <= Len(text_lower)
                    /\ Contains(SubSeq(text_lower, i, i + Len(kw) - 1), kw)})

\* The count of a category taken as the occurrences of its keywords, a
\* keyword that occurs twice counted twice.
sdg_matches_occurrences(text_lower) ==
    [i \in 1..Len(FallbackKeywords) |->
        [sdg_num |-> FallbackKeywords[i].sdg_num,
         count |-> LET kws == FallbackKeywords[i].keywords
                       N[k \in 0..Len(kws)] ==
                           IF k = 0 THEN 0
                           ELSE N[k - 1] + OccurrencesIn(text_lower, kws[k])
                   IN N[Len(kws)]]]

\* sdg_matches.items(): (sdg_num, count) pairs.
sdg_matches(text_lower) ==
    [i \in 1..Len(FallbackKeywords) |->
        [sdg_num |-> FallbackKeywords[i].sdg_num,
         count |-> Len(KeywordsIn(FallbackKeywords[i].keywords, text_lower))]]

CountOf(item) == item.count

\* The record without the cap of 0.9.
FallbackRecordUncapped(item, text_lower) ==
    [sdg_number |-> item.sdg_num,
     sdg_name |-> LabelName(sdg_labels[item.sdg_num]),
     confidence |-> item.count * FallbackWeight,
     matched_keywords |-> KeywordsIn(FallbackMatchedKeywords, text_lower),
     explanation |-> [template |-> "fallback", key_terms |-> <<>>]]

\* The record _fallback_prediction appends for one (sdg_num, count).
FallbackRecord(item, text_lower) ==
    [sdg_number |-> item.sdg_num,
     sdg_name |-> LabelName(sdg_labels[item.sdg_num]),
     confidence |-> Min(FallbackCap, item.count * FallbackWeight),
     matched_keywords |-> KeywordsIn(FallbackMatchedKeywords, text_lower),
     explanation |-> [template |-> "fallback", key_terms |-> <<>>]]

\* The "nothing detected" record.
Sentinel ==
    [sdg_number |-> 0,
     sdg_name |-> "No SDGs Detected",
     confidence |-> 0,
     matched_keywords |-> <<>>,
     explanation |-> [template |-> "none", key_terms |-> <<>>]]

\* The sentinel appended whenever fewer than k categories were found, not
\* only when none was.
_fallback_prediction_padded(txt, k) ==
    Bind(Lower(txt), LAMBDA text_lower :
    Bind(SortDesc(sdg_matches(text_lower), CountOf), LAMBDA sorted_sdgs :
    Bind(Filter(Take(sorted_sdgs, k), LAMBDA item : item.count > 0), LAMBDA top :
    Bind([i \in 1..Len(top) |-> FallbackRecord(top[i], text_lower)],
         LAMBDA fallback_results :
            IF Len(fallback_results) < k
            THEN Append(fallback_results, Sentinel) ELSE fallback_results))))

\* ModelLoader._fallback_prediction
_fallback_prediction(txt, k) ==
    Bind(Lower(txt), LAMBDA text_lower :
    Bind(SortDesc(sdg_matches(text_lower), CountOf), LAMBDA sorted_sdgs :
    Bind(Filter(Take(sorted_sdgs, k), LAMBDA item : item.count > 0), LAMBDA top :
    Bind([i \in 1..Len(top) |-> FallbackRecord(top[i], text_lower)],
         LAMBDA fallback_results :
            IF fallback_results = <<>> THEN <<Sentinel>> ELSE fallback_results))))

(***************************************************************************)
(* SemanticMatcher (utils/semantic_matcher.py)                             *)
(***************************************************************************)
SemanticTopK == 5

\* The record compute_similarities builds from one record of predict_sdgs.
SemanticRecord(result) ==
    [sdg_number |-> result.sdg_number,
     sdg_name |-> result.sdg_name,
     avg_similarity |-> result.confidence,
     max_similarity |-> result.confidence,
     top_indicators |-> << [indicator |-> "Model-based prediction",
                            similarity |-> result.confidence] >>,
     explanation |-> result.explanation,
     matched_keywords |-> result.matched_keywords]

\* The formatting loop of compute_similarities.
FormatResults(result_list) ==
    Bind(result_list, LAMBDA rs : [i \in 1..Len(rs) |-> SemanticRecord(rs[i])])

(***************************************************************************)
(* ExplainableOutput (utils/explainable_output.py)                         *)
(***************************************************************************)
\* Every word of the model, for the hash of a string.
Vocabulary ==
    << " ", "poverty", "poor", "low", "income", "financial", "hardship",
       "economic", "disadvantage", "inequality", "rich", "wealthy", "high",
       "luxury", "hunger", "food", "security", "malnutrition", "famine",
       "shortage", "agriculture", "crop", "production", "waste",
       "overconsumption", "obesity", "health", "well-being", "disease",
       "prevention", "healthcare", "medical", "vaccination", "mental",
       "hygiene", "outbreak", "pandemic", "crisis", "climate", "carbon",
       "emission", "global", "warming", "forest", "biodiversity", "ecosystem",
       "wildlife", "land", "sustainability", "environmental", "conservation" >>

WordIndex(w) == CHOOSE i \in 1..Len(Vocabulary) : Vocabulary[i] = w

HashModulus == 61

\* hash(keyword) under the process's hash seed (PYTHONHASHSEED): the order in
\* which a set of strings is iterated follows it, not the order of insertion.
RECURSIVE StrHash(_, _)
StrHash(kw, seed) ==
    IF kw = <<>> THEN seed % HashModulus
    ELSE (StrHash(Tail(kw), seed) * 7 + WordIndex(Head(kw)) * seed) % HashModulus

\* The keywords as they are, duplicates kept.
ListOfSetKeepsDuplicates(keywords, seed) == keywords

\* list(set(keywords)): each keyword once, in the set's order of iteration.
ListOfSet(keywords, seed) ==
    Bind(keywords, LAMBDA kws :
        LET First(i) == \A j \in 1..(i - 1) : kws[j] # kws[i]
            F[i \in 0..Len(kws)] ==
                IF i = 0 THEN <<>>
                ELSE IF First(i) THEN Append(F[i - 1], kws[i]) ELSE F[i - 1]
        IN SortDesc(F[Len(kws)], LAMBDA kw : 0 - StrHash(kw, seed)))

\* The place of the accumulator of sdg_number in the dict `combined`
\* (key f"SDG{sdg_number}"), 0 when the key is not in it.
KeyIndex(combined, sdg_number) ==
    IF \E i \in 1..Len(combined) : combined[i].sdg_number = sdg_number
    THEN CHOOSE i \in 1..Len(combined) : combined[i].sdg_number = sdg_number
    ELSE 0

\* The pass with the confidences of a category added up.
AddRuleResultSum(dict, result) ==
    Bind(dict, LAMBDA combined :
    Bind(KeyIndex(combined, result.sdg_number), LAMBDA k :
    IF k = 0
    THEN Append(combined,
                [sdg_number |-> result.sdg_number,
                 sdg_name |-> result.sdg_name,
                 rule_confidence |-> result.confidence,
                 semantic_confidence |-> 0,
                 matched_keywords |-> result.matched_keywords,
                 excluded_keywords |-> result.excluded_keywords,
                 inclusion_scope |-> result.inclusion_scope])
    ELSE [combined EXCEPT
            ![k].rule_confidence = @ + result.confidence,
            ![k].matched_keywords = @ \o result.matched_keywords]))

\* One pass of the loop over rule_results.
AddRuleResult(dict, result) ==
    Bind(dict, LAMBDA combined :
    Bind(KeyIndex(combined, result.sdg_number), LAMBDA k :
    IF k = 0
    THEN Append(combined,
                [sdg_number |-> result.sdg_number,
                 sdg_name |-> result.sdg_name,
                 rule_confidence |-> result.confidence,
                 semantic_confidence |-> 0,
                 matched_keywords |-> result.matched_keywords,
                 excluded_keywords |-> result.excluded_keywords,
                 inclusion_scope |-> result.inclusion_scope])
    ELSE [combined EXCEPT
            ![k].rule_confidence = Max(@, result.confidence),
            ![k].matched_keywords = @ \o result.matched_keywords]))

\* One pass of the loop over semantic_results.
AddSemanticResult(dict, result) ==
    Bind(dict, LAMBDA combined :
    Bind(KeyIndex(combined, result.sdg_number), LAMBDA k :
    IF k = 0
    THEN Append(combined,
                [sdg_number |-> result.sdg_number,
                 sdg_name |-> result.sdg_name,
                 rule_confidence |-> 0,
                 semantic_confidence |-> result.avg_similarity,
                 matched_keywords |-> <<>>,
                 excluded_keywords |-> <<>>,
                 inclusion_scope |-> "unknown"])
    ELSE [combined EXCEPT ![k].semantic_confidence = result.avg_similarity]))

\* The dict `combined` after both loops, in insertion order.
Accumulate(rule_list, semantic_list) ==
    Bind(rule_list, LAMBDA rs :
    Bind(semantic_list, LAMBDA ss :
        LET R[i \in 0..Len(rs)] ==
                IF i = 0 THEN <<>> ELSE AddRuleResult(R[i - 1], rs[i])
            S[i \in 0..Len(ss)] ==
                IF i = 0 THEN R[Len(rs)] ELSE AddSemanticResult(S[i - 1], ss[i])
        IN S[Len(ss)]))

RuleWeight == 4000

SemanticWeight == 6000

\* The weights of the two confidences taken for each other.
CombinedConfidenceSwapped(rule_confidence, semantic_confidence) ==
    (rule_confidence * SemanticWeight + semantic_confidence * RuleWeight) \div 10000

\* rule_confidence * 0.4 + semantic_confidence * 0.6
CombinedConfidence(rule_confidence, semantic_confidence) ==
    (rule_confidence * RuleWeight + semantic_confidence * SemanticWeight) \div 10000

\* The loop "Calculate combined confidence": the accumulator with its
\* combined_confidence set and its keywords deduplicated.
Finalize(sdg_data, seed) ==
    [sdg_number |-> sdg_data.sdg_number,
     sdg_name |-> sdg_data.sdg_name,
     rule_confidence |-> sdg_data.rule_confidence,
     semantic_confidence |-> sdg_data.semantic_confidence,
     combined_confidence |-> CombinedConfidence(sdg_data.rule_confidence,
                                                sdg_data.semantic_confidence),
     matched_keywords |-> ListOfSet(sdg_data.matched_keywords, seed),
     excluded_keywords |-> sdg_data.excluded_keywords,
     inclusion_scope |-> sdg_data.inclusion_scope]

CombinedOf(x) == x.combined_confidence

\* The sort left out: the accumulators in the dict's order.
SortCombinedNot(result_list) == result_list

\* A sort that breaks ties by ascending sdg_number:
\* key=lambda x: (-x['combined_confidence'], x['sdg_number']).
SortCombinedByNumber(result_list) ==
    SortDesc(result_list, LAMBDA x : x.combined_confidence * 100 - x.sdg_number)

\* result_list.sort(key=lambda x: x['combined_confidence'], reverse=True)
SortCombined(result_list) == SortDesc(result_list, CombinedOf)

\* ExplainableOutput._combine_results
_combine_results(rule_list, semantic_list, seed) ==
    Bind(Accumulate(rule_list, semantic_list), LAMBDA combined :
        SortCombined([i \in 1..Len(combined) |-> Finalize(combined[i], seed)]))

\* rule_results after _combine_results: the accumulator of a key shares the
\* matched_keywords list of the first rule record of that key, and extend()
\* on it for a later record of the same key changes that record.
RuleResultsAfter(rule_list) ==
    Bind(rule_list, LAMBDA rs :
    [i \in 1..Len(rs) |->
        IF \E j \in 1..(i - 1) : rs[j].sdg_number = rs[i].sdg_number
        THEN rs[i]
        ELSE LET E[j \in i..Len(rs)] ==
                     IF j = i THEN rs[i].matched_keywords
                     ELSE IF rs[j].sdg_number = rs[i].sdg_number
                          THEN E[j - 1] \o rs[j].matched_keywords
                          ELSE E[j - 1]
             IN [rs[i] EXCEPT !.matched_keywords = E[Len(rs)]]])

TopN == 3

\* ExplainableOutput._determine_confidence_level
\* The levels with the thresholds themselves left below.
_determine_confidence_level_strict(confidence_score) ==
    IF confidence_score > HighLevel THEN "high"
    ELSE IF confidence_score > MediumLevel THEN "medium"
    ELSE "low"

\* ExplainableOutput._determine_confidence_level
_determine_confidence_level(confidence_score) ==
    IF confidence_score >= HighLevel THEN "high"
    ELSE IF confidence_score >= MediumLevel THEN "medium"
    ELSE "low"

\* round(x, 3): to the nearest thousandth (ten units of the model).
Round3(x) == ((x + 5) \div 10) * 10

\* f"{x:.2f}": to the nearest hundredth.
Format2(x) == ((x + 50) \div 100) * 100

DetailKeywords == 5

\* ExplainableOutput._generate_sdg_explanation; detailed_explanation is the
\* template chosen, the keywords shown and the scope.
_generate_sdg_explanation(accumulator) ==
    Bind(accumulator, LAMBDA sdg :
    LET confidence_level == _determine_confidence_level(sdg.combined_confidence)
    IN [sdg_number |-> sdg.sdg_number,
        sdg_name |-> sdg.sdg_name,
        confidence_level |-> confidence_level,
        confidence_score |-> Round3(sdg.combined_confidence),
        matched_keywords |-> sdg.matched_keywords,
        excluded_keywords |-> sdg.excluded_keywords,
        inclusion_scope |-> sdg.inclusion_scope,
        detailed_explanation |->
            [template |-> confidence_level,
             keyword_info |-> Take(sdg.matched_keywords, DetailKeywords),
             scope_info |-> sdg.inclusion_scope]])

NoSdgSummary == "No relevant SDGs detected in the document."

\* The summary without the test for an empty top_3_sdgs.
_generate_overall_summary_unguarded(top_3_sdgs) ==
    Bind(top_3_sdgs, LAMBDA top :
        [text |-> "Top 3 detected SDGs",
         sdg_names |-> [i \in 1..Len(top) |-> <<top[i].sdg_number, top[i].sdg_name>>],
         confidence_scores |-> [i \in 1..Len(top) |->
                                   Format2(top[i].combined_confidence)]])

\* ExplainableOutput._generate_overall_summary
_generate_overall_summary(top_3_sdgs) ==
    Bind(top_3_sdgs, LAMBDA top :
    IF top = <<>>
    THEN [text |-> NoSdgSummary, sdg_names |-> <<>>, confidence_scores |-> <<>>]
    ELSE [text |-> "Top 3 detected SDGs",
          sdg_names |-> [i \in 1..Len(top) |-> <<top[i].sdg_number, top[i].sdg_name>>],
          confidence_scores |-> [i \in 1..Len(top) |->
                                    Format2(top[i].combined_confidence)]])

\* ExplainableOutput._get_confidence_levels
_get_confidence_levels(top_3_sdgs) ==
    Bind(top_3_sdgs, LAMBDA top :
    LET Count(level) ==
            Cardinality({i \in 1..Len(top) :
                _determine_confidence_level(top[i].combined_confidence) = level})
    IN [high |-> Count("high"), medium |-> Count("medium"), low |-> Count("low")])

MaxReportKeywords == 20

\* The keywords of all accumulators, each once, with no cap.
_get_all_matched_keywords_uncapped(result_list, seed) ==
    Bind(result_list, LAMBDA rs :
    LET A[i \in 0..Len(rs)] ==
            IF i = 0 THEN <<>> ELSE A[i - 1] \o rs[i].matched_keywords
    IN ListOfSet(A[Len(rs)], seed))

\* ExplainableOutput._get_all_matched_keywords
_get_all_matched_keywords(result_list, seed) ==
    Bind(result_list, LAMBDA rs :
    LET A[i \in 0..Len(rs)] ==
            IF i = 0 THEN <<>> ELSE A[i - 1] \o rs[i].matched_keywords
    IN Take(ListOfSet(A[Len(rs)], seed), MaxReportKeywords))

important_terms ==
    <<"sustainable", "development", "poverty", "hunger", "health", "education",
      "gender", "water", "energy", "economic", "industry", "inequality",
      "cities", "consumption", "climate", "marine", "land", "peace", "partnership">>

MissingTerms == 10

\* ExplainableOutput._get_missing_keywords
_get_missing_keywords(top_3_sdgs) == Take(important_terms, MissingTerms)

\* ExplainableOutput.generate_explanation, given the combined results.
ReportOf(result_list, seed) ==
    Bind(result_list, LAMBDA rs :
    Bind(Take(rs, TopN), LAMBDA top_3_sdgs :
    [top_3_sdgs |-> top_3_sdgs,
     explanations |-> [i \in 1..Len(top_3_sdgs) |-> _generate_sdg_explanation(top_3_sdgs[i])],
     overall_summary |-> _generate_overall_summary(top_3_sdgs),
     confidence_levels |-> _get_confidence_levels(top_3_sdgs),
     matched_keywords |-> _get_all_matched_keywords(rs, seed),
     missing_keywords |-> _get_missing_keywords(top_3_sdgs)]))

(***************************************************************************)
(* ModelLoader.predict_sdgs: the trained classifier's side                 *)
(***************************************************************************)
\* re.sub(r'[^a-zA-Z\s]', '', word.lower()): the words of the model that hold
\* a character that is no letter.  The passage "lorem-ipsum-1000" is of letters
\* and single blanks, and keeps its 1000 characters as "loremipsum".
PreprocessWord(w) ==
    CASE w = "well-being" -> "wellbeing"
      [] w = "lorem-ipsum-1000" -> "loremipsum"
      [] OTHER -> LowerWord(w)

\* ModelLoader._preprocess_text
_preprocess_text(txt) == Bind(txt, LAMBDA t : [i \in 1..Len(t) |-> PreprocessWord(t[i])])

ProbaThreshold == 1000

\* np.argsort(probabilities)[::-1][:top_k]: the places of the top_k greatest
\* probabilities, greatest first.  The default sort of np.argsort is not
\* stable: equal probabilities may come in any order.
RECURSIVE TopIndices(_, _, _)
TopIndices(probabilities, chosen, k) ==
    Bind(chosen, LAMBDA c :
    Bind((1..Len(probabilities)) \ Range(c), LAMBDA left :
        LET best == {i \in left : \A j \in left : probabilities[i] >= probabilities[j]}
        IN IF k = 0 \/ left = {} THEN {c}
           ELSE UNION {TopIndices(probabilities, Append(c, i), k - 1) : i \in best}))

\* The record with the index itself as its number: `sdg_number = idx`.
ModelRecordZeroBased(idx, prob, txt) ==
    [sdg_number |-> idx - 1,
     sdg_name |-> LabelName(sdg_labels[idx]),
     confidence |-> prob,
     matched_keywords |-> _extract_keywords(txt, idx),
     explanation |-> _generate_explanation(idx, prob, txt)]

\* The record predict_sdgs appends for index idx (counted from 1 here, so
\* sdg_number = idx).
ModelRecord(idx, prob, txt) ==
    [sdg_number |-> idx,
     sdg_name |-> LabelName(sdg_labels[idx]),
     confidence |-> prob,
     matched_keywords |-> _extract_keywords(txt, idx),
     explanation |-> _generate_explanation(idx, prob, txt)]

(***************************************************************************)
(* analyze_sdgs (api/index.py): the zero-shot variant                      *)
(***************************************************************************)
\* SDG_LABELS, each 'name - description' as its two sides of the ' - '.
SDG_LABELS ==
    << <<"No Poverty", "ending poverty in all forms">>,
       <<"Zero Hunger", "food security and nutrition">>,
       <<"Good Health and Well-being", "health and wellness">>,
       <<"Quality Education", "inclusive education">>,
       <<"Gender Equality", "women empowerment">>,
       <<"Clean Water and Sanitation", "water access">>,
       <<"Affordable and Clean Energy", "renewable energy">>,
       <<"Decent Work and Economic Growth", "employment">>,
       <<"Industry Innovation and Infrastructure", "technology">>,
       <<"Reduced Inequality", "social equality">>,
       <<"Sustainable Cities and Communities", "urban development">>,
       <<"Responsible Consumption and Production", "sustainability">>,
       <<"Climate Action", "climate change mitigation">>,
       <<"Life Below Water", "ocean conservation">>,
       <<"Life on Land", "biodiversity protection">>,
       <<"Peace Justice and Strong Institutions", "governance">>,
       <<"Partnerships for the Goals", "global cooperation">> >>

\* The number of characters of a word of the model's texts.
WordLen(w) ==
    CASE w \in {"lorem-ipsum-1000", "loremipsum"} -> 1000
      [] w \in {"and"} -> 3
      [] w \in {"low", "poor", "rich", "This"} -> 4
      [] w \in {"global"} -> 6
      [] w \in {"warming"} -> 7
      [] w \in {"income", "hunger", "carbon"} -> 6
      [] w \in {"Poverty", "poverty", "medical", "Climate", "climate", "project",
                "through"} -> 7
      [] w \in {"hardship", "farmland", "emission"} -> 8
      [] w \in {"financial", "addresses"} -> 9
      [] w \in {"healthcare"} -> 10
      [] w \in {"sustainable", "agriculture"} -> 11
      [] w \in {"malnutrition"} -> 12
      [] OTHER -> 5

TextLimit == 1000

\* len(text) of the words joined by single blanks.  "~" is what text[:1000]
\* leaves of the word the cut falls inside: it ends at the limit.
CharLen(words) ==
    LET F[i \in 0..Len(words)] ==
            IF i = 0 THEN 0
            ELSE IF words[i] = "~" THEN TextLimit
            ELSE F[i - 1] + (IF i > 1 THEN 1 ELSE 0) + WordLen(words[i])
    IN F[Len(words)]

\* text[:1000] if len(text) > 1000 else text.  A word the cut falls inside
\* is left as the fragment "~", which holds no keyword.
Truncate(txt) ==
    Bind(txt, LAMBDA t :
    IF CharLen(t) <= TextLimit THEN t
    ELSE Bind(CHOOSE n \in 0..Len(t) :
                 /\ CharLen(SubSeq(t, 1, n)) <= TextLimit
                 /\ \A m \in (n + 1)..Len(t) : CharLen(SubSeq(t, 1, m)) > TextLimit,
              LAMBDA whole :
                 IF CharLen(SubSeq(t, 1, whole)) + 1 < TextLimit /\ whole < Len(t)
                 THEN Append(SubSeq(t, 1, whole), "~")
                 ELSE SubSeq(t, 1, whole)))

\* common_keywords of extract_keywords (api/index.py).
common_keywords ==
    << <<"poverty">>, <<"hunger">>, <<"health">>, <<"education">>, <<"gender">>,
       <<"water">>, <<"energy">>, <<"work">>, <<"innovation">>, <<"inequality">>,
       <<"cities">>, <<"consumption">>, <<"climate">>, <<"ocean">>, <<"land">>,
       <<"peace">>, <<"partnership">>, <<"sustainable">>, <<"development">>,
       <<"environment">>, <<"social">>, <<"economic">> >>

\* extract_keywords (api/index.py)
extract_keywords(txt, sdg_label) ==
    Bind(Lower(txt), LAMBDA text_lower :
        Take(KeywordsIn(common_keywords, text_lower), MaxKeywords))

\* label.split(' - ')[0]
ZeroShotName(label) == label[1]

\* The record analyze_sdgs builds at rank i (counted from 1 here) of the
\* classifier's result.
ZeroShotRecord(i, result, txt) ==
    Bind(SDG_LABELS[result[i].label], LAMBDA label :
    Bind(extract_keywords(txt, label), LAMBDA keywords :
       [sdg_number |-> i,
        sdg_name |-> ZeroShotName(label),
        confidence |-> result[i].score,
        matched_keywords |-> keywords,
        explanation |-> [template |-> "semantic",
                         key_terms |-> Take(keywords, ExplanationTerms)]]))

ModelNotAvailable ==
    << [sdg_number |-> 1,
        sdg_name |-> "Model Not Available",
        confidence |-> 0,
        matched_keywords |-> <<>>,
        explanation |-> [template |-> "unavailable", key_terms |-> <<>>]] >>

AnalysisError ==
    << [sdg_number |-> 0,
        sdg_name |-> "Analysis Error",
        confidence |-> 0,
        matched_keywords |-> <<>>,
        explanation |-> [template |-> "error", key_terms |-> <<>>]] >>

\* analyze_sdgs: zs is the classifier handle and what it does when called,
\* [loaded, raises, result]; result is the labels by descending score.
analyze_sdgs(zs, txt, k) ==
    IF ~zs.loaded THEN ModelNotAvailable
    ELSE IF zs.raises THEN AnalysisError
    ELSE Bind(Truncate(txt), LAMBDA cut :
            [i \in 1..Min(k, Len(zs.result)) |-> ZeroShotRecord(i, zs.result, cut)])

(***************************************************************************)
(* Inputs                                                                  *)
(***************************************************************************)
\* The phrases the texts are made of; "lorem-ipsum-1000" stands for a
\* passage of 1000 characters that holds no keyword.
Phrases ==
    << <<"Poverty", "and", "low", "income">>,
       <<"hunger", "and", "malnutrition">>,
       <<"medical", "healthcare">>,
       <<"Climate", "and", "carbon">>,
       <<"lorem-ipsum-1000">>,
       <<"financial", "hardship">>,
       <<"poor">>,
       <<"rich">>,
       <<"emission", "global", "warming">> >>

\* The most phrases a text holds.
MaxPhrases == 4

\* The phrases chosen, in the order of Phrases, as one text.
RECURSIVE JoinFrom(_, _)
JoinFrom(chosen, i) ==
    IF i > Len(Phrases) THEN <<>>
    ELSE (IF i \in chosen THEN Phrases[i] ELSE <<>>) \o JoinFrom(chosen, i + 1)

\* The scenario text of the engine's description.
ScenarioText ==
    <<"This", "project", "addresses", "poverty", "and", "low", "income",
      "through", "sustainable", "agriculture">>

Texts ==
    {JoinFrom(chosen, 1) : chosen \in {c \in SUBSET (1..Len(Phrases)) :
                                          Cardinality(c) <= MaxPhrases}}
    \cup {ScenarioText}

\* A probability vector of n classes: the given peaks, and small distinct
\* values elsewhere.
Proba(n, peaks) == [i \in 1..n |-> IF i \in DOMAIN peaks THEN peaks[i] ELSE i * 10]

\* self.sdg_model and what it does when called: not loaded; loaded, and
\* predict_proba raises; loaded, and predict_proba returns a vector (one with
\* two equal probabilities, one with more probabilities of 0.1 or more than
\* top_k = 3 asks for, one of a model trained with 18 classes, one with no
\* probability of 0.1 or more).
SdgModels ==
    { [loaded |-> FALSE, raises |-> FALSE, proba |-> <<>>],
      [loaded |-> TRUE, raises |-> TRUE, proba |-> <<>>],
      [loaded |-> TRUE, raises |-> FALSE,
       proba |-> Proba(17, (1 :> 6000) @@ (13 :> 3000) @@ (4 :> 900))],
      [loaded |-> TRUE, raises |-> FALSE,
       proba |-> Proba(17, (3 :> 4000) @@ (5 :> 4000) @@ (1 :> 1500))],
      [loaded |-> TRUE, raises |-> FALSE,
       proba |-> Proba(17, (2 :> 3000) @@ (7 :> 2500) @@ (9 :> 2000) @@ (11 :> 1500))],
      [loaded |-> TRUE, raises |-> FALSE,
       proba |-> Proba(18, (2 :> 7000) @@ (18 :> 2000))],
      [loaded |-> TRUE, raises |-> FALSE, proba |-> Proba(17, <<>>)] }

\* A result of the zero-shot classifier: the labels in `first`, then the
\* others, by descending score.
ZeroShotResult(first) ==
    LET others == SortDesc([i \in 1..Len(SDG_LABELS) |-> i],
                           LAMBDA i : IF i \in Range(first) THEN 0 - 100 ELSE 0 - i)
        order == first \o SubSeq(others, 1, Len(SDG_LABELS) - Len(first))
    IN [i \in 1..Len(order) |->
           [label |-> order[i],
            score |-> IF i = 1 THEN 9000 ELSE IF i = 2 THEN 5000
                      ELSE IF i = 3 THEN 2000 ELSE 500 - i]]

\* The module's classifier and what it does when called.
Classifiers ==
    { [loaded |-> FALSE, raises |-> FALSE, result |-> <<>>],
      [loaded |-> TRUE, raises |-> TRUE, result |-> <<>>],
      [loaded |-> TRUE, raises |-> FALSE, result |-> ZeroShotResult(<<13, 1, 15>>)],
      [loaded |-> TRUE, raises |-> FALSE, result |-> ZeroShotResult(<<>>)] }

\* The hash seeds of the process.
HashSeeds == {1, 60}

\* top_k as the callers of predict_sdgs pass it: app.py (3) and
\* compute_similarities (5).
CallerTopK == {3, SemanticTopK}

ZeroShotTopK == 3

(***************************************************************************)
(* State                                                                   *)
(***************************************************************************)
VARIABLES
    text,              \* the document text of the request
    patterns_df,       \* RuleBasedMatcher.patterns_df
    sdg_model,         \* ModelLoader.sdg_model, with what it does when called
    classifier,        \* api/index.py's classifier, with what it does when called
    hash_seed,         \* the hash seed of the process
    call,              \* the entry point running: "predict", "pipeline", "analyze", "fuse"
    top_k,             \* the top_k of the running predict_sdgs / analyze_sdgs
    pc,                \* where the call stands
    backend_calls,     \* calls of the backend model made so far
    backend_input,     \* the text handed to the backend model
    top_indices,       \* predict_sdgs: top_indices
    pos,               \* predict_sdgs: the place in top_indices of the loop
    results,           \* predict_sdgs: the list being built
    raised,            \* predict_sdgs: an exception was raised inside the try
    returned,          \* what predict_sdgs / analyze_sdgs returned
    rule_results,      \* generate_explanation's first argument
    semantic_results,  \* generate_explanation's second argument
    combined_results,  \* what _combine_results returned
    report,            \* what generate_explanation returned
    fuse_calls,        \* calls of generate_explanation made on these input objects
    previous_report,   \* what the call before the last returned
    upload,            \* the upload of the request: its file part and whether it reads as a PDF
    temp_dir,          \* the handler's temporary directory exists
    temp_file,         \* the handler's temporary file exists
    response           \* the response the handler returned, "none" before

vars ==
    <<text, patterns_df, sdg_model, classifier, hash_seed, call, top_k, pc,
      backend_calls, backend_input, top_indices, pos, results, raised, returned,
      rule_results, semantic_results, combined_results, report,
      fuse_calls, previous_report, upload, temp_dir, temp_file, response>>

NoModel == [loaded |-> FALSE, raises |-> FALSE, proba |-> <<>>]

NoClassifier == [loaded |-> FALSE, raises |-> FALSE, result |-> <<>>]

NoReport == [top_3_sdgs |-> <<>>]

\* No upload: the entry point is called on a text.
NoUpload == [file |-> "missing", readable |-> FALSE]

\* Nothing on disk and nothing sent.
NoRequest ==
    /\ upload = NoUpload
    /\ temp_dir = FALSE
    /\ temp_file = FALSE
    /\ response = "none"

\* What every request starts from.
InitLocals ==
    /\ pc = "start"
    /\ backend_calls = 0
    /\ backend_input = <<>>
    /\ top_indices = <<>>
    /\ pos = 0
    /\ results = <<>>
    /\ raised = FALSE
    /\ returned = <<>>
    /\ rule_results = <<>>
    /\ semantic_results = <<>>
    /\ combined_results = <<>>
    /\ report = NoReport
    /\ fuse_calls = 0
    /\ previous_report = NoReport

\* app.py's handlers: model_loader.predict_sdgs(analysis_text, top_k).
InitPredict ==
    /\ call = "predict"
    /\ top_k \in CallerTopK
    /\ sdg_model \in SdgModels
    /\ patterns_df = DefaultPatterns
    /\ classifier = NoClassifier
    /\ hash_seed = 1

\* text -> {match_sdgs, compute_similarities} -> generate_explanation.
InitPipeline ==
    /\ call = "pipeline"
    /\ top_k = SemanticTopK
    /\ sdg_model \in SdgModels
    /\ patterns_df \in {_load_patterns(found) : found \in BOOLEAN}
    /\ classifier = NoClassifier
    /\ hash_seed \in HashSeeds

\* api/index.py's handler: analyze_sdgs(text, top_k=3).
InitAnalyze ==
    /\ call = "analyze"
    /\ top_k = ZeroShotTopK
    /\ classifier \in Classifiers
    /\ sdg_model = NoModel
    /\ patterns_df = DefaultPatterns
    /\ hash_seed = 1

Init ==
    /\ text \in Texts
    /\ InitLocals
    /\ NoRequest
    /\ (InitPredict \/ InitPipeline \/ InitAnalyze)

(***************************************************************************)
(* ModelLoader.predict_sdgs, step by step                                  *)
(***************************************************************************)
PredictVars == <<backend_calls, backend_input, top_indices, pos, results, raised, returned>>

Inputs == <<text, patterns_df, sdg_model, classifier, hash_seed, call, top_k, upload>>

Disk == <<temp_dir, temp_file, response>>

FuseVars == <<rule_results, semantic_results, combined_results, report>>

Earlier == <<fuse_calls, previous_report>>

\* app.py: the handler calls model_loader.predict_sdgs(analysis_text, top_k).
CallPredict ==
    /\ call = "predict"
    /\ pc = "start"
    /\ pc' = "predict"
    /\ UNCHANGED <<Inputs, Disk, Earlier, PredictVars, FuseVars>>

\* predict_sdgs: `if not self.sdg_model: return self._fallback_prediction(...)`,
\* else into the try.
PredictBegin ==
    /\ pc = "predict"
    /\ IF ~sdg_model.loaded
       THEN /\ returned' = _fallback_prediction(text, top_k)
            /\ pc' = "returned"
       ELSE /\ returned' = returned
            /\ pc' = "infer"
    /\ UNCHANGED <<Inputs, Disk, Earlier, FuseVars, backend_calls, backend_input, top_indices,
                   pos, results, raised>>

\* predict_sdgs: _preprocess_text, predict_proba and argsort.
PredictProba ==
    /\ pc = "infer"
    /\ backend_input' = _preprocess_text(text)
    /\ backend_calls' = backend_calls + 1
    /\ IF sdg_model.raises
       THEN /\ raised' = TRUE
            /\ pc' = "except"
            /\ UNCHANGED <<top_indices, pos>>
       ELSE /\ top_indices' \in TopIndices(sdg_model.proba, <<>>, top_k)
            /\ pos' = 1
            /\ raised' = raised
            /\ pc' = "build"
    /\ results' = <<>>
    /\ UNCHANGED <<Inputs, Disk, Earlier, FuseVars, returned>>

\* predict_sdgs: one pass of `for idx in top_indices`.  self.sdg_labels[idx]
\* raises IndexError for an index past the 17 labels.
BuildRecord ==
    /\ pc = "build"
    /\ pos <= Len(top_indices)
    /\ LET idx == top_indices[pos]
           prob == sdg_model.proba[idx]
       IN IF prob < ProbaThreshold
          THEN /\ pos' = pos + 1
               /\ UNCHANGED <<results, raised, pc>>
          ELSE IF idx > Len(sdg_labels)
          THEN /\ raised' = TRUE
               /\ pc' = "except"
               /\ UNCHANGED <<results, pos>>
          ELSE /\ results' = Append(results, ModelRecord(idx, prob, text))
               /\ pos' = pos + 1
               /\ UNCHANGED <<raised, pc>>
    /\ UNCHANGED <<Inputs, Disk, Earlier, FuseVars, backend_calls, backend_input, top_indices, returned>>

\* predict_sdgs: `return results` after the loop.
PredictReturn ==
    /\ pc = "build"
    /\ pos > Len(top_indices)
    /\ returned' = results
    /\ pc' = "returned"
    /\ UNCHANGED <<Inputs, Disk, Earlier, FuseVars, backend_calls, backend_input, top_indices,
                   pos, results, raised>>

\* The records built before the exception kept, and the fallback's after them.
ExceptResultKeepsPartial(txt, k, partial) == partial \o _fallback_prediction(txt, k)

\* What the except clause of predict_sdgs returns.
ExceptResult(txt, k, partial) == _fallback_prediction(txt, k)

\* predict_sdgs: `except Exception: ... return self._fallback_prediction(...)`.
PredictExcept ==
    /\ pc = "except"
    /\ returned' = ExceptResult(text, top_k, results)
    /\ pc' = "returned"
    /\ UNCHANGED <<Inputs, Disk, Earlier, FuseVars, backend_calls, backend_input, top_indices,
                   pos, results, raised>>

(***************************************************************************)
(* The pipeline: match_sdgs, compute_similarities, generate_explanation    *)
(***************************************************************************)
\* rule_results = rule_matcher.match_sdgs(text)
MatchSdgs ==
    /\ call \in {"pipeline", "match"}
    /\ pc = "start"
    /\ rule_results' = match_sdgs(patterns_df, text)
    /\ pc' = IF call = "pipeline" THEN "semantic" ELSE "matched"
    /\ UNCHANGED <<Inputs, Disk, Earlier, PredictVars, semantic_results, combined_results, report>>

\* compute_similarities: `if not self.model_loader.sdg_model: return []`, else
\* the call of predict_sdgs(document_text, top_k=5).
ComputeSimilarities ==
    /\ pc = "semantic"
    /\ IF ~sdg_model.loaded
       THEN /\ semantic_results' = <<>>
            /\ pc' = "fuse"
       ELSE /\ semantic_results' = semantic_results
            /\ pc' = "predict"
    /\ UNCHANGED <<Inputs, Disk, Earlier, PredictVars, rule_results, combined_results, report>>

\* compute_similarities: the formatting of what predict_sdgs returned.
FormatSimilarities ==
    /\ call = "pipeline"
    /\ pc = "returned"
    /\ semantic_results' = FormatResults(returned)
    /\ pc' = "fuse"
    /\ UNCHANGED <<Inputs, Disk, Earlier, PredictVars, rule_results, combined_results, report>>

\* ExplainableOutput.generate_explanation(rule_results, semantic_results)
GenerateExplanation ==
    /\ pc = "fuse"
    /\ combined_results' = _combine_results(rule_results, semantic_results, hash_seed)
    /\ report' = ReportOf(combined_results', hash_seed)
    /\ rule_results' = RuleResultsAfter(rule_results)
    /\ pc' = "done"
    /\ fuse_calls' = 1
    /\ UNCHANGED <<Inputs, Disk, PredictVars, semantic_results, previous_report>>

\* The most calls of generate_explanation on the same input objects.
MaxFuseCalls == 2

\* generate_explanation called again with the same list objects, as the call
\* before left them.
RepeatExplanation ==
    /\ pc = "done"
    /\ fuse_calls < MaxFuseCalls
    /\ previous_report' = report
    /\ combined_results' = _combine_results(rule_results, semantic_results, hash_seed)
    /\ report' = ReportOf(combined_results', hash_seed)
    /\ rule_results' = RuleResultsAfter(rule_results)
    /\ fuse_calls' = fuse_calls + 1
    /\ UNCHANGED <<Inputs, Disk, PredictVars, semantic_results, pc>>

(***************************************************************************)
(* api/index.py                                                            *)
(***************************************************************************)
\* extract: results = analyze_sdgs(text, top_k=3)
AnalyzeSdgs ==
    /\ call = "analyze"
    /\ pc = "start"
    /\ returned' = analyze_sdgs(classifier, text, top_k)
    /\ backend_calls' = IF classifier.loaded THEN 1 ELSE 0
    /\ backend_input' = IF classifier.loaded THEN Truncate(text) ELSE <<>>
    /\ raised' = (classifier.loaded /\ classifier.raises)
    /\ pc' = "returned"
    /\ UNCHANGED <<Inputs, Disk, Earlier, FuseVars, top_indices, pos, results>>

Next ==
    \/ CallPredict
    \/ PredictBegin
    \/ PredictProba
    \/ BuildRecord
    \/ PredictReturn
    \/ PredictExcept
    \/ MatchSdgs
    \/ ComputeSimilarities
    \/ FormatSimilarities
    \/ GenerateExplanation
    \/ RepeatExplanation
    \/ AnalyzeSdgs

Spec == Init /\ [][Next]_vars

(***************************************************************************)
(* The upload handlers: upload_file and api_extract (app.py), extract      *)
(* (api/index.py)                                                          *)
(***************************************************************************)
AppHandlers == {"upload_file", "api_extract"}

UploadHandlers == AppHandlers \cup {"extract"}

\* request.files: no 'file' part, a part with an empty filename, a file whose
\* name does not end in .pdf, a .pdf file that opens as a PDF, one that does not.
Uploads ==
    { [file |-> "missing", readable |-> FALSE],
      [file |-> "unnamed", readable |-> FALSE],
      [file |-> "other", readable |-> FALSE],
      [file |-> "pdf", readable |-> TRUE],
      [file |-> "pdf", readable |-> FALSE] }

\* The text of the uploaded document, ASCII and single-spaced.
UploadTexts == {<<"poor">>, ScenarioText, Phrases[1] \o Phrases[5]}

UploadTopK == 3

MinTextLen == 50

\* What the handler answers to a request it does not take up, on failure, and
\* on success: upload_file redirects, the API endpoints answer with a status.
Rejected(handler) == IF handler = "upload_file" THEN "redirect index" ELSE "400"

Failed(handler) == IF handler = "upload_file" THEN "redirect index" ELSE "500"

Succeeded(handler) == IF handler = "upload_file" THEN "redirect results" ELSE "200"

InitUpload ==
    /\ call \in UploadHandlers
    /\ upload \in Uploads
    /\ text \in UploadTexts
    /\ InitLocals
    /\ temp_dir = FALSE
    /\ temp_file = FALSE
    /\ response = "none"
    /\ patterns_df = DefaultPatterns
    /\ hash_seed = 1
    /\ IF call = "extract"
       THEN /\ top_k = ZeroShotTopK
            /\ classifier \in Classifiers
            /\ sdg_model = NoModel
       ELSE /\ top_k = UploadTopK
            /\ sdg_model \in SdgModels
            /\ classifier = NoClassifier

\* The checks of the request, then the upload saved: tempfile.mkdtemp() and
\* file.save(file_path) in app.py, NamedTemporaryFile(delete=False) and
\* file.save(tmp.name) in api/index.py.
ReceiveUpload ==
    /\ call \in UploadHandlers
    /\ pc = "start"
    /\ IF upload.file # "pdf"
       THEN /\ response' = Rejected(call)
            /\ pc' = "responded"
            /\ UNCHANGED <<temp_dir, temp_file>>
       ELSE /\ temp_dir' = (call \in AppHandlers)
            /\ temp_file' = TRUE
            /\ pc' = "saved"
            /\ response' = response
    /\ UNCHANGED <<Inputs, Earlier, PredictVars, FuseVars>>

\* app.py: pdf_extractor.extract_metadata / extract_content; fitz.open raises
\* on a file that is no PDF, and the handler's except clause takes over.
ExtractContent ==
    /\ call \in AppHandlers
    /\ pc = "saved"
    /\ pc' = IF upload.readable THEN "predict" ELSE "failed"
    /\ UNCHANGED <<Inputs, Disk, Earlier, PredictVars, FuseVars>>

\* app.py, after predict_sdgs returned: os.remove(file_path),
\* os.rmdir(temp_dir), and the response.
CleanUp ==
    /\ call \in AppHandlers
    /\ pc = "returned"
    /\ temp_file' = FALSE
    /\ temp_dir' = FALSE
    /\ response' = Succeeded(call)
    /\ pc' = "responded"
    /\ UNCHANGED <<Inputs, Earlier, PredictVars, FuseVars>>

\* app.py: `except Exception as e:` and its response.
HandleError ==
    /\ call \in AppHandlers
    /\ pc = "failed"
    /\ response' = Failed(call)
    /\ pc' = "responded"
    /\ UNCHANGED <<Inputs, Earlier, PredictVars, FuseVars, temp_dir, temp_file>>

\* api/index.py: extract_text_from_pdf returns "" for a file that is no PDF;
\* `if not text or len(text) < 50` answers 400 from inside the try, and its
\* finally clause removes the file.
ExtractText ==
    /\ call = "extract"
    /\ pc = "saved"
    /\ IF ~upload.readable \/ CharLen(text) < MinTextLen
       THEN /\ response' = "400"
            /\ temp_file' = FALSE
            /\ pc' = "responded"
       ELSE /\ pc' = "analyze"
            /\ UNCHANGED <<temp_file, response>>
    /\ UNCHANGED <<Inputs, Earlier, PredictVars, FuseVars, temp_dir>>

\* api/index.py: results = analyze_sdgs(text, top_k=3), the response, and the
\* finally clause.
ExtractAnalyze ==
    /\ call = "extract"
    /\ pc = "analyze"
    /\ returned' = analyze_sdgs(classifier, text, top_k)
    /\ backend_calls' = IF classifier.loaded THEN 1 ELSE 0
    /\ backend_input' = IF classifier.loaded THEN Truncate(text) ELSE <<>>
    /\ raised' = (classifier.loaded /\ classifier.raises)
    /\ response' = Succeeded(call)
    /\ temp_file' = FALSE
    /\ pc' = "responded"
    /\ UNCHANGED <<Inputs, Earlier, FuseVars, top_indices, pos, results, temp_dir>>

NextUpload ==
    \/ ReceiveUpload
    \/ ExtractContent
    \/ PredictBegin
    \/ PredictProba
    \/ BuildRecord
    \/ PredictReturn
    \/ PredictExcept
    \/ CleanUp
    \/ HandleError
    \/ ExtractText
    \/ ExtractAnalyze

SpecUpload == InitUpload /\ [][NextUpload]_vars

(***************************************************************************)
(* generate_explanation on its own: any two input lists                    *)
(***************************************************************************)
\* The longest input list.
MaxResults == 2

\* Records of the shape match_sdgs returns.
\* The inclusion patterns of a long row of the pattern file, all of them found
\* in the document: one more than the report's cap of keywords.
ManyKeywords ==
    [i \in 1..(MaxReportKeywords + 1) |-> <<Vocabulary[i + 26]>>]

RuleRecords ==
    { [sdg_number |-> 1, sdg_name |-> "No Poverty", confidence |-> 3000,
       matched_keywords |-> << <<"poverty">> >>, excluded_keywords |-> <<>>,
       inclusion_scope |-> "narrow"],
      [sdg_number |-> 1, sdg_name |-> "No Poverty", confidence |-> 6000,
       matched_keywords |-> << <<"poor">>, <<"poverty">> >>, excluded_keywords |-> <<>>,
       inclusion_scope |-> "narrow"],
      [sdg_number |-> 2, sdg_name |-> "Zero Hunger", confidence |-> 3000,
       matched_keywords |-> << <<"hunger">> >>, excluded_keywords |-> <<>>,
       inclusion_scope |-> "narrow"],
      [sdg_number |-> 3, sdg_name |-> "Good Health and Well-being", confidence |-> 3000,
       matched_keywords |-> << <<"health">> >>, excluded_keywords |-> <<>>,
       inclusion_scope |-> "narrow"],
      [sdg_number |-> 3, sdg_name |-> "Good Health and Well-being", confidence |-> 9000,
       matched_keywords |-> << <<"health">>, <<"medical">>, <<"healthcare">> >>,
       excluded_keywords |-> << <<"pandemic">> >>, inclusion_scope |-> "broad"],
      [sdg_number |-> 2, sdg_name |-> "Zero Hunger", confidence |-> 2000,
       matched_keywords |-> << <<"hunger">>, <<"food">>, <<"malnutrition">>, <<"famine">> >>,
       excluded_keywords |-> << <<"waste">>, <<"obesity">> >>, inclusion_scope |-> "broad"],
      [sdg_number |-> 15, sdg_name |-> "Life on Land", confidence |-> 10000,
       matched_keywords |-> ManyKeywords, excluded_keywords |-> <<>>,
       inclusion_scope |-> "broad"] }

\* Records of the shape compute_similarities returns.
SemanticRecords ==
    { SemanticRecord(Sentinel),
      SemanticRecord(ModelRecord(1, 2000, <<"poverty">>)),
      SemanticRecord(ModelRecord(2, 2000, <<"hunger", "and", "malnutrition">>)),
      SemanticRecord(ModelRecord(13, 5000, <<"climate">>)),
      SemanticRecord(ModelRecord(13, 8000, <<"climate", "carbon">>)),
      SemanticRecord(ModelRecord(1, 9660, <<"poverty">>)) }

\* The lists of at most n elements of a set.
ListsUpTo(S, n) == UNION {[1..m -> S] : m \in 0..n}

InitFuse ==
    /\ call = "fuse"
    /\ pc = "fuse"
    /\ rule_results \in ListsUpTo(RuleRecords, MaxResults)
    /\ semantic_results \in ListsUpTo(SemanticRecords, MaxResults)
    /\ hash_seed \in HashSeeds
    /\ text = <<>>
    /\ top_k = TopN
    /\ sdg_model = NoModel
    /\ patterns_df = DefaultPatterns
    /\ classifier = NoClassifier
    /\ backend_calls = 0
    /\ backend_input = <<>>
    /\ top_indices = <<>>
    /\ pos = 0
    /\ results = <<>>
    /\ raised = FALSE
    /\ returned = <<>>
    /\ combined_results = <<>>
    /\ report = NoReport
    /\ fuse_calls = 0
    /\ previous_report = NoReport
    /\ NoRequest

NextFuse == GenerateExplanation \/ RepeatExplanation

SpecFuse == InitFuse /\ [][NextFuse]_vars

(***************************************************************************)
(* match_sdgs on its own: tables of a pattern file, and texts              *)
(***************************************************************************)
\* Inclusion and exclusion keywords of the tables below.
InclusionWords ==
    <<"poverty", "poor", "hardship", "inequality", "disadvantage", "hunger",
      "famine", "malnutrition", "agriculture">>

ExclusionWords == <<"rich", "wealthy", "luxury", "obesity", "overconsumption", "waste">>

\* The most inclusion and exclusion keywords a row holds and a text mentions.
MaxInclusion == 7

MaxExclusion == 4

\* The rows of the long table.
LongRows == 12

\* "w1,w2,...,wn" as a cell of the file; the empty cell is NaN.
RECURSIVE CommaJoin(_)
CommaJoin(words) ==
    IF Len(words) <= 1 THEN words
    ELSE <<Head(words), ",">> \o CommaJoin(Tail(words))

CellOf(words) == IF words = <<>> THEN NanCell ELSE StrCell(CommaJoin(words))

RowOf(sdg_number, n_inclusion, n_exclusion) ==
    [sdg_number |-> sdg_number,
     sdg_name |-> LabelName(sdg_labels[sdg_number]),
     inclusion_patterns |-> CellOf(SubSeq(InclusionWords, 1, n_inclusion)),
     exclusion_patterns |-> CellOf(SubSeq(ExclusionWords, 1, n_exclusion))]

\* A row with many patterns and a row with two inclusion patterns and one
\* exclusion pattern.
WideTable == <<RowOf(1, MaxInclusion, MaxExclusion), RowOf(2, 2, 1)>>

\* More rows than match_sdgs returns, with one to three inclusion patterns.
LongTable == [n \in 1..LongRows |-> RowOf(n, 1 + ((n * 2) % 3), 0)]

\* A file with empty pieces between commas: "poverty,, ,poor," and "rich,".
BlankTable ==
    << [sdg_number |-> 1, sdg_name |-> "No Poverty",
        inclusion_patterns |-> StrCell(<<"poverty", ",", ",", " ", ",", "poor", ",">>),
        exclusion_patterns |-> StrCell(<<"rich", ",">>)] >>

MatchTables == {DefaultPatterns, CsvPatterns, WideTable, LongTable, BlankTable, <<>>}

\* A text that mentions the first a inclusion keywords and the first b
\* exclusion keywords.
TextOf(a, b) == SubSeq(InclusionWords, 1, a) \o SubSeq(ExclusionWords, 1, b)

\* The texts: of keywords, empty (TextOf(0, 0)), of blanks only, and with a
\* capital.
MatchTexts ==
    {TextOf(a, b) : a \in 0..MaxInclusion, b \in 0..MaxExclusion}
    \cup {<<" ">>, <<" ", " ">>, <<" ", "Poverty", " ">>}

InitMatch ==
    /\ call = "match"
    /\ text \in MatchTexts
    /\ patterns_df \in MatchTables
    /\ InitLocals
    /\ top_k = TopN
    /\ sdg_model = NoModel
    /\ classifier = NoClassifier
    /\ hash_seed = 1
    /\ NoRequest

NextMatch == MatchSdgs

SpecMatch == InitMatch /\ [][NextMatch]_vars

(***************************************************************************)
(* The fallback policy on its own: texts that repeat words                 *)
(***************************************************************************)
\* The words of the texts below.
FallbackWords ==
    {"climate", "carbon", "poverty", "poor", "healthcare", "forest", "lorem"}

\* The most words of such a text.
MaxWords == 3

\* Every text of at most MaxWords of these words, and a text that mentions
\* every keyword of SDG 13, one of them twice.
FallbackTexts ==
    ListsUpTo(FallbackWords, MaxWords)
    \cup {<<"Climate", "carbon", "emission", "global", "warming", "climate">>,
          <<"low", "income", "poverty", "poor", "forest", "wildlife">>}

\* top_k as predict_sdgs may be called.
FallbackTopK == {1, 3, SemanticTopK}

\* predict_sdgs with no model loaded, or with one whose predict_proba raises.
InitFallback ==
    /\ call = "predict"
    /\ text \in FallbackTexts
    /\ top_k \in FallbackTopK
    /\ sdg_model \in {m \in SdgModels : ~m.loaded \/ m.raises}
    /\ InitLocals
    /\ patterns_df = DefaultPatterns
    /\ classifier = NoClassifier
    /\ hash_seed = 1
    /\ NoRequest

NextFallback == CallPredict \/ PredictBegin \/ PredictProba \/ PredictExcept

SpecFallback == InitFallback /\ [][NextFallback]_vars

(***************************************************************************)
(* Properties                                                              *)
(***************************************************************************)
\* The sdg_number values of a list of records.
NumbersOf(list) == {list[i].sdg_number : i \in 1..Len(list)}

NonIncreasing(list) ==
    \A i \in 1..Len(list), j \in 1..Len(list) :
        i < j => list[i].combined_confidence >= list[j].combined_confidence

\* The call of predict_sdgs has returned.
PredictReturned == call \in {"predict", "pipeline"} /\ pc = "returned"

\* How many keywords of a list the document text mentions.
Mentioned(keywords) ==
    Cardinality({i \in 1..Len(keywords) : Contains(Lower(text), keywords[i])})

\* The keywords of a core category of the fallback policy.
CoreKeywords(sdg_num) ==
    (CHOOSE c \in Range(FallbackKeywords) : c.sdg_num = sdg_num).keywords

\* C1: every accumulator _combine_results returns, and so every entry of
\* top_3_sdgs, has combined_confidence = rule_confidence * 0.4 +
\* semantic_confidence * 0.6 of its own final rule and semantic confidence.
C1_CombinedIsWeightedSum ==
    \A acc \in Range(combined_results) \cup Range(report.top_3_sdgs) :
        acc.combined_confidence * 10 = acc.rule_confidence * 4 + acc.semantic_confidence * 6

\* A report whose first entry merged two rule records and a semantic record.
C1_Witness ==
    /\ pc = "done"
    /\ Len(rule_results) = 2
    /\ rule_results[1].sdg_number = rule_results[2].sdg_number
    /\ rule_results[1].confidence < rule_results[2].confidence
    /\ \E acc \in Range(report.top_3_sdgs) :
          /\ acc.sdg_number = rule_results[1].sdg_number
          /\ acc.rule_confidence = rule_results[2].confidence
          /\ acc.semantic_confidence > 0

\* C2 (as claimed): every confidence match_sdgs and predict_sdgs emit, and
\* every combined_confidence generate_explanation makes of them, is in
\* [0.0, 1.0].
C2_ConfidencesInUnitInterval ==
    call \in {"predict", "pipeline"} =>
        /\ \A r \in Range(rule_results) : r.confidence >= 0 /\ r.confidence <= 10000
        /\ \A r \in Range(returned) : r.confidence >= 0 /\ r.confidence <= 10000
        /\ \A acc \in Range(combined_results) :
              acc.combined_confidence >= 0 /\ acc.combined_confidence <= 10000

\* C3: top_3_sdgs holds exactly min(3, n) accumulators, n the number of
\* distinct sdg_number values of both inputs, in non-increasing order of
\* combined_confidence, and no accumulator left out has a combined_confidence
\* greater than one that is in.
C3_TopThree ==
    pc = "done" =>
        LET top == report.top_3_sdgs
            n == Cardinality(NumbersOf(rule_results) \cup NumbersOf(semantic_results))
        IN /\ Len(top) = Min(3, n)
           /\ Cardinality(NumbersOf(top)) = Len(top)
           /\ Range(top) \subseteq Range(combined_results)
           /\ NumbersOf(combined_results)
                = NumbersOf(rule_results) \cup NumbersOf(semantic_results)
           /\ NonIncreasing(top)
           /\ \A out \in Range(combined_results), in \in Range(top) :
                 out.sdg_number \notin NumbersOf(top)
                    => out.combined_confidence <= in.combined_confidence

\* Four categories, the one left out not the last of the inputs.
C3_Witness ==
    /\ pc = "done"
    /\ Len(combined_results) = 4
    /\ Len(report.top_3_sdgs) = 3
    /\ combined_results[4].sdg_number # semantic_results[Len(semantic_results)].sdg_number
    /\ combined_results[4].combined_confidence < combined_results[3].combined_confidence

\* C4 (as claimed): of two accumulators with equal combined_confidence the one
\* with the lower sdg_number is ranked first, whatever the order of the inputs.
C4_TieLowerNumberFirst ==
    pc = "done" =>
        \A i \in 1..Len(combined_results), j \in 1..Len(combined_results) :
            (i < j /\ combined_results[i].combined_confidence
                        = combined_results[j].combined_confidence)
                => combined_results[i].sdg_number < combined_results[j].sdg_number

\* The place at which a category first appears in rule_results followed by
\* semantic_results.
FirstSeen(sdg_number) ==
    LET numbers == [i \in 1..Len(rule_results) |-> rule_results[i].sdg_number]
                   \o [i \in 1..Len(semantic_results) |-> semantic_results[i].sdg_number]
    IN CHOOSE i \in 1..Len(numbers) :
          numbers[i] = sdg_number /\ \A j \in 1..(i - 1) : numbers[j] # sdg_number

\* C4 (amended): of two accumulators with equal combined_confidence the one
\* whose category appeared first in the inputs (rule_results, then
\* semantic_results) is ranked first; the sdg_number plays no part.
C4_TieKeepsFirstAppearance ==
    pc = "done" =>
        \A i \in 1..Len(combined_results), j \in 1..Len(combined_results) :
            (i < j /\ combined_results[i].combined_confidence
                        = combined_results[j].combined_confidence)
                => FirstSeen(combined_results[i].sdg_number)
                     < FirstSeen(combined_results[j].sdg_number)

\* A tie at the edge of the top 3: the category of the higher number is in,
\* the one of the lower number is out.
C4_Witness ==
    /\ pc = "done"
    /\ Len(combined_results) = 4
    /\ combined_results[3].combined_confidence = combined_results[4].combined_confidence
    /\ combined_results[3].sdg_number > combined_results[4].sdg_number
    /\ report.top_3_sdgs[3].sdg_number = combined_results[3].sdg_number

\* C5: if the list predict_sdgs returns holds a record with sdg_number 0, that
\* record is its only element.
C5_SentinelAlone ==
    PredictReturned =>
        ((\E r \in Range(returned) : r.sdg_number = 0) => Len(returned) = 1)

\* The sentinel returned after the loaded model raised.
C5_Witness ==
    /\ PredictReturned
    /\ sdg_model.loaded
    /\ raised
    /\ returned = <<Sentinel>>

\* C6 (as claimed): in the pipeline, top_3_sdgs never holds the sentinel
\* (sdg_number 0) together with an entry of a real category (1..17).
C6_SentinelNeverAmongReal ==
    (call = "pipeline" /\ pc = "done") =>
        ~ /\ \E acc \in Range(report.top_3_sdgs) : acc.sdg_number = 0
          /\ \E acc \in Range(report.top_3_sdgs) : acc.sdg_number \in 1..17

\* C7: predict_sdgs calls the backend at most once, and when the model is not
\* loaded or anything raised inside the try, also after records were built,
\* it returns exactly what _fallback_prediction(text, top_k) returns.
C7_FailureDegradesToFallback ==
    /\ backend_calls <= 1
    /\ raised => pc \in {"except", "returned", "fuse", "done"}
    /\ (PredictReturned /\ (~sdg_model.loaded \/ raised))
          => returned = _fallback_prediction(text, top_k)

\* The label lookup raised after a record was built, and the fallback found
\* a category.
C7_Witness ==
    /\ PredictReturned
    /\ raised
    /\ results # <<>>
    /\ backend_calls = 1
    /\ returned # <<Sentinel>>

\* A record of the fallback policy: a core category the text mentions, with
\* confidence min(0.9, count * 0.3).
IsFallbackRecord(r) ==
    /\ r.sdg_number \in {c.sdg_num : c \in Range(FallbackKeywords)}
    /\ Mentioned(CoreKeywords(r.sdg_number)) > 0
    /\ r.confidence = Min(9000, Mentioned(CoreKeywords(r.sdg_number)) * 3000)

\* C8 (as claimed): analyze_sdgs, when the classifier is null or raises,
\* returns the fallback policy's output: records of core categories the text
\* mentions, or the one sentinel (sdg_number 0, "No SDGs Detected").
C8_ZeroShotFallsBack ==
    (call = "analyze" /\ pc = "returned" /\ (~classifier.loaded \/ classifier.raises))
        => \/ /\ Len(returned) = 1
              /\ returned[1].sdg_number = 0
              /\ returned[1].sdg_name = "No SDGs Detected"
           \/ /\ returned # <<>>
              /\ \A r \in Range(returned) : IsFallbackRecord(r)

\* The patterns of a cell of the default table that stand in the text.
DefaultFound(cell) == {p \in Range(cell.items) : SearchWords(p, Lower(text))}

\* C9 (as claimed): with the default table, a category with inclusion keywords
\* and no exclusion keyword in the text is returned with those keywords; for
\* the scenario text SDG 1 is returned with "poverty" and "low income" and
\* inclusion_scope "narrow".
C9_DefaultTableMatches ==
    (call = "pipeline" /\ pc = "semantic" /\ patterns_df = DefaultPatterns) =>
        /\ \A row \in Range(DefaultPatterns) :
              (DefaultFound(row.inclusion_patterns) # {}
                 /\ DefaultFound(row.exclusion_patterns) = {})
                => \E r \in Range(rule_results) :
                      /\ r.sdg_number = row.sdg_number
                      /\ DefaultFound(row.inclusion_patterns) \subseteq Range(r.matched_keywords)
        /\ text = ScenarioText =>
              \E r \in Range(rule_results) :
                  /\ r.sdg_number = 1
                  /\ {<<"poverty">>, <<"low", "income">>} \subseteq Range(r.matched_keywords)
                  /\ r.inclusion_scope = "narrow"

\* predict_sdgs returned with no model loaded, for a text that mentions
\* "climate" and "carbon".
ClimateFallback ==
    /\ call = "predict"
    /\ pc = "returned"
    /\ ~sdg_model.loaded
    /\ Contains(Lower(text), <<"climate">>)
    /\ Contains(Lower(text), <<"carbon">>)

\* The record of SDG 13 with confidence min(0.9, count * 0.3) is returned.
Sdg13Returned ==
    \E r \in Range(returned) :
        /\ r.sdg_number = 13
        /\ r.confidence = Min(9000, Mentioned(CoreKeywords(13)) * 3000)

\* C10 (as claimed): with no model loaded, whatever else a text that mentions
\* "climate" and "carbon" mentions, and for top_k 3 and 5, the list returned
\* holds SDG 13 with confidence min(0.9, count * 0.3).
C10_Sdg13AlwaysReturned == ClimateFallback => Sdg13Returned

\* The core categories ranked before SDG 13: those before it in the table
\* (1, 2, 3) with at least its count, and SDG 15 with a greater count.
RankedBefore13 ==
    Cardinality({c \in {1, 2, 3} :
                    Mentioned(CoreKeywords(c)) >= Mentioned(CoreKeywords(13))})
    + (IF Mentioned(CoreKeywords(15)) > Mentioned(CoreKeywords(13)) THEN 1 ELSE 0)

\* C10 (amended): with no model loaded and a text that mentions "climate" and
\* "carbon", the list returned holds SDG 13 with confidence
\* min(0.9, count * 0.3) exactly when fewer than top_k core categories are
\* ranked before it; so always for top_k = 5, and for top_k = 3 unless SDG 1,
\* 2 and 3 each have at least SDG 13's count.
C10_Sdg13ReturnedWithinTopK ==
    ClimateFallback =>
        /\ Sdg13Returned <=> RankedBefore13 < top_k
        /\ top_k = 5 => Sdg13Returned
        /\ \A r \in Range(returned) : r.sdg_number # 13 \/ Sdg13Returned

\* top_k = 3 and two categories ranked before SDG 13, which is the last
\* record returned.
C10_Witness ==
    /\ ClimateFallback
    /\ top_k = 3
    /\ RankedBefore13 = 2
    /\ Mentioned(CoreKeywords(13)) = 2
    /\ \E r \in Range(returned) : r.sdg_number = 13 /\ r.confidence = 6000

\* C11: generate_explanation called again with the same rule_results and
\* semantic_results, the very list objects of the call before, returns the
\* report the call before returned: the same top_3_sdgs in the same order,
\* explanations, overall_summary, confidence_levels and keywords.
C11_RepeatedCallSameReport ==
    fuse_calls >= 2 => report = previous_report

\* A second call on two rule records of one category, the first of which the
\* first call left with the keywords of both.
C11_Witness ==
    /\ fuse_calls = 2
    /\ Len(rule_results) = 2
    /\ rule_results[1].sdg_number = rule_results[2].sdg_number
    /\ Len(rule_results[1].matched_keywords) > Len(rule_results[2].matched_keywords) + 1
    /\ semantic_results # <<>>
    /\ Len(report.top_3_sdgs) >= 2

\* C12 (as claimed): a call of generate_explanation leaves every record of
\* rule_results and semantic_results as it was before the call, also when
\* rule_results holds several records of one sdg_number.
C12_InputsUnchanged ==
    [][(GenerateExplanation \/ RepeatExplanation)
          => (rule_results' = rule_results /\ semantic_results' = semantic_results)]_vars

\* The text is empty or holds blanks only.
IsBlank(txt) == \A i \in 1..Len(txt) : txt[i] = " "

\* C13: for every category table, match_sdgs on an empty or whitespace-only
\* text returns the empty list.
C13_BlankTextMatchesNothing ==
    (call = "match" /\ pc = "matched" /\ IsBlank(text)) => rule_results = <<>>

\* A text of blanks matched against a table that holds empty patterns.
C13_Witness ==
    /\ call = "match"
    /\ pc = "matched"
    /\ text = <<" ", " ">>
    /\ patterns_df = BlankTable
    /\ rule_results = <<>>

\* generate_explanation returned for two empty input lists, and all of the
\* report but missing_keywords is empty or zero.
EmptyReport ==
    /\ report.overall_summary.text = NoSdgSummary
    /\ report.top_3_sdgs = <<>>
    /\ report.explanations = <<>>
    /\ report.confidence_levels = [high |-> 0, medium |-> 0, low |-> 0]
    /\ report.matched_keywords = <<>>

BothEmpty == pc = "done" /\ rule_results = <<>> /\ semantic_results = <<>>

\* C14 (as claimed): for two empty input lists the report has overall_summary
\* "No relevant SDGs detected in the document.", empty top_3_sdgs and
\* explanations, a confidence_levels histogram of zeros, and every keyword
\* output empty, missing_keywords included.
C14_EmptyInputsEmptyReport ==
    BothEmpty => (EmptyReport /\ report.missing_keywords = <<>>)

\* C14 (amended): for two empty input lists the report has overall_summary
\* "No relevant SDGs detected in the document.", empty top_3_sdgs,
\* explanations and matched_keywords, a confidence_levels histogram of zeros,
\* and as missing_keywords the same ten fixed terms as for every input.
C14_EmptyInputsReport ==
    BothEmpty =>
        /\ EmptyReport
        /\ report.missing_keywords =
              <<"sustainable", "development", "poverty", "hunger", "health",
                "education", "gender", "water", "energy", "economic">>

\* The report of a call on two empty lists.
C14_Witness ==
    /\ BothEmpty
    /\ fuse_calls = 1
    /\ combined_results = <<>>
    /\ Len(report.missing_keywords) = 10

\* match_sdgs has returned.
Matched == call = "match" /\ pc = "matched"

\* The patterns of a cell that stand in the text, counted.
FoundIn(cell) == Len(MatchesIn(cell, Lower(text)))

\* 0.3 * i - 0.5 * e of a row of the table, as a real number (in
\* ten-thousandths).
ScoreOf(row) ==
    3000 * FoundIn(row.inclusion_patterns) - 5000 * FoundIn(row.exclusion_patterns)

IsEmitted(row) == \E r \in Range(rule_results) : r.sdg_number = row.sdg_number

\* C15 (as claimed): match_sdgs emits a record for a category if and only if
\* its score max(0.0, 0.3 * i - 0.5 * e) is strictly greater than 0.1; a
\* category whose score is exactly 0.1 is dropped, and so is every category
\* whose exclusion score meets or exceeds its inclusion score.
C15_EmittedIffAboveThreshold ==
    (Matched /\ Len(patterns_df) <= RuleTopN) =>
        \A row \in Range(patterns_df) : IsEmitted(row) <=> ScoreOf(row) > 1000

\* How many patterns of a cell of the file stand in the lowercased text as
\* whole words.
PatternsMatched(cell) ==
    LET patterns == PatternsOf(cell)
    IN Cardinality({k \in 1..Len(patterns) : SearchWords(Strip(patterns[k]), Lower(text))})

\* The row of the table a record was made for.
RowFor(r) == CHOOSE row \in Range(patterns_df) : row.sdg_number = r.sdg_number

\* C16: every record match_sdgs emits has confidence max(0.0, 0.3 * i - 0.5 * e),
\* i and e the numbers of the category's inclusion and exclusion patterns
\* matched in the text; a category with n >= 1 inclusion patterns matched and
\* no exclusion pattern matched is emitted with confidence 0.3 * n.
C16_ConfidenceFormula ==
    Matched =>
        /\ \A r \in Range(rule_results) :
              LET i == PatternsMatched(RowFor(r).inclusion_patterns)
                  e == PatternsMatched(RowFor(r).exclusion_patterns)
              IN /\ r.confidence = (IF 3 * i > 5 * e THEN 3000 * i - 5000 * e ELSE 0)
                 /\ Len(r.matched_keywords) = i
                 /\ Len(r.excluded_keywords) = e
        /\ Len(patterns_df) <= RuleTopN =>
              \A row \in Range(patterns_df) :
                  (PatternsMatched(row.inclusion_patterns) >= 1
                     /\ PatternsMatched(row.exclusion_patterns) = 0)
                    => \E r \in Range(rule_results) :
                          /\ r.sdg_number = row.sdg_number
                          /\ r.confidence = 3000 * PatternsMatched(row.inclusion_patterns)

\* A record of three inclusion matches and one exclusion match, of a row that
\* holds more patterns of both kinds.
C16_Witness ==
    /\ Matched
    /\ patterns_df = WideTable
    /\ \E r \in Range(rule_results) :
          /\ Len(r.matched_keywords) = 3
          /\ Len(r.excluded_keywords) = 1
          /\ r.confidence = 4000

\* C17: the list match_sdgs returns is in non-increasing order of confidence
\* and has at most 10 entries, and no category left out of it has a score
\* strictly greater than the confidence of a record in it.
C17_SortedTopTen ==
    Matched =>
        /\ Len(rule_results) <= 10
        /\ \A i \in 1..Len(rule_results), j \in 1..Len(rule_results) :
              i < j => rule_results[i].confidence >= rule_results[j].confidence
        /\ Cardinality(NumbersOf(rule_results)) = Len(rule_results)
        /\ \A row \in Range(patterns_df), r \in Range(rule_results) :
              ~IsEmitted(row) => ScoreOf(row) <= r.confidence

\* Twelve categories above the threshold, of three different confidences; ten
\* are returned and two of the least confidence are left out.
C17_Witness ==
    /\ Matched
    /\ Len(patterns_df) = 12
    /\ \A row \in Range(patterns_df) : ScoreOf(row) > 1000
    /\ Len(rule_results) = 10
    /\ rule_results[1].confidence = 9000
    /\ rule_results[5].confidence = 6000
    /\ rule_results[10].confidence = 3000

\* predict_sdgs returned what the fallback policy makes of the text.
FallbackReturned == PredictReturned /\ (~sdg_model.loaded \/ raised)

\* The occurrences of the keywords of a core category in the lowercased text.
OccurrenceCount(sdg_num) ==
    LET kws == CoreKeywords(sdg_num)
        N[k \in 0..Len(kws)] ==
            IF k = 0 THEN 0 ELSE N[k - 1] + OccurrencesIn(Lower(text), kws[k])
    IN N[Len(kws)]

CoreNumbers == {c.sdg_num : c \in Range(FallbackKeywords)}

\* What C18 says of the list returned but for the count: only core categories
\* the text mentions, in non-increasing order of confidence, at most top_k.
FallbackShape ==
    /\ Len(returned) <= top_k
    /\ \A i \in 1..Len(returned), j \in 1..Len(returned) :
          i < j => returned[i].confidence >= returned[j].confidence
    /\ \A r \in Range(returned) :
          \/ r = Sentinel /\ Len(returned) = 1
          \/ r.sdg_number \in CoreNumbers /\ Mentioned(CoreKeywords(r.sdg_number)) > 0

\* C18 (as claimed): the fallback policy scores a core category by the
\* occurrences of its keywords in the lowercased text, with confidence
\* min(0.9, occurrence_count * 0.3); a category of no occurrence is not
\* returned, the records are in non-increasing order of confidence, and at most
\* top_k are returned.
C18_FallbackCountsOccurrences ==
    FallbackReturned =>
        /\ FallbackShape
        /\ \A r \in Range(returned) :
              r.sdg_number \in CoreNumbers
                 => r.confidence = Min(9000, OccurrenceCount(r.sdg_number) * 3000)

\* C18 (amended): the fallback policy scores a core category by the number of
\* its keywords that occur in the lowercased text, each keyword counted once
\* however often it occurs, with confidence min(0.9, count * 0.3); a category
\* with none of its keywords in the text is not returned, the records are in
\* non-increasing order of confidence, and at most top_k are returned.
C18_FallbackCountsKeywords ==
    FallbackReturned =>
        /\ FallbackShape
        /\ \A r \in Range(returned) :
              r.sdg_number \in CoreNumbers
                 => r.confidence = Min(9000, Mentioned(CoreKeywords(r.sdg_number)) * 3000)

\* A text that mentions four keywords of SDG 13, one of them twice: five
\* occurrences, a count of four and the confidence capped at 0.9.
C18_Witness ==
    /\ FallbackReturned
    /\ OccurrenceCount(13) = 5
    /\ Mentioned(CoreKeywords(13)) = 4
    /\ returned[1].sdg_number = 13
    /\ returned[1].confidence = 9000

\* The greatest confidence of the rule records of a category, 0 if none.
MaxRuleConfidence(sdg_number) ==
    LET of == {i \in 1..Len(rule_results) : rule_results[i].sdg_number = sdg_number}
    IN IF of = {} THEN 0
       ELSE CHOOSE c \in {rule_results[i].confidence : i \in of} :
               \A i \in of : rule_results[i].confidence <= c

\* The avg_similarity of the last semantic record of a category, 0 if none.
LastSimilarity(sdg_number) ==
    LET of == {i \in 1..Len(semantic_results) :
                  semantic_results[i].sdg_number = sdg_number}
    IN IF of = {} THEN 0
       ELSE semantic_results[CHOOSE i \in of : \A j \in of : j <= i].avg_similarity

\* C19: the accumulator of every sdg_number has as rule_confidence the maximum
\* of the confidences of the rule records of that number (0.0 if none, never
\* their sum) and as semantic_confidence the avg_similarity of the last
\* semantic record of that number (0.0 if none).
C19_MaxRuleLastSemantic ==
    pc = "done" =>
        \A acc \in Range(combined_results) :
            /\ acc.rule_confidence = MaxRuleConfidence(acc.sdg_number)
            /\ acc.semantic_confidence = LastSimilarity(acc.sdg_number)

\* Two rule records of one category, the greater first, and two semantic
\* records of another, the greater first.
C19_Witness ==
    /\ pc = "done"
    /\ Len(rule_results) = 2
    /\ Len(semantic_results) = 2
    /\ rule_results[1].sdg_number = rule_results[2].sdg_number
    /\ rule_results[1].confidence > rule_results[2].confidence
    /\ semantic_results[1].sdg_number = semantic_results[2].sdg_number
    /\ semantic_results[1].avg_similarity > semantic_results[2].avg_similarity
    /\ \E acc \in Range(combined_results) :
          acc.rule_confidence = rule_results[1].confidence
    /\ \E acc \in Range(combined_results) :
          acc.semantic_confidence = semantic_results[2].avg_similarity

\* The keywords of the records of a list that are of one category.
KeywordsOf(list, sdg_number) ==
    UNION {Range(list[i].matched_keywords) :
              i \in {j \in 1..Len(list) : list[j].sdg_number = sdg_number}}

\* C20 (as claimed): the accumulator of a category that is in both
\* rule_results and semantic_results has as matched_keywords the union,
\* without duplicates, of the matched_keywords of every input record of the
\* category, those of its semantic records included.
C20_KeywordsUnionOfBothInputs ==
    pc = "done" =>
        \A acc \in Range(combined_results) :
            (acc.sdg_number \in NumbersOf(rule_results)
               /\ acc.sdg_number \in NumbersOf(semantic_results))
              => /\ Range(acc.matched_keywords)
                      = KeywordsOf(rule_results, acc.sdg_number)
                          \cup KeywordsOf(semantic_results, acc.sdg_number)
                 /\ Cardinality(Range(acc.matched_keywords)) = Len(acc.matched_keywords)

\* C21 (as claimed): in both variants the text handed to the backend model is
\* never longer than 1000 characters, whatever the length of the input text.
C21_BackendInputBounded ==
    backend_calls >= 1 => CharLen(backend_input) <= TextLimit

\* predict_sdgs returned what its loop built from a vector over the 17
\* categories: the classifier is loaded and nothing raised.
TrainedReturned ==
    /\ PredictReturned
    /\ sdg_model.loaded
    /\ ~raised
    /\ Len(sdg_model.proba) = Len(sdg_labels)

\* How many categories have a probability above that of category i.
AboveCount(i) ==
    Cardinality({j \in 1..Len(sdg_model.proba) : sdg_model.proba[j] > sdg_model.proba[i]})

\* How many categories other than i have a probability of at least that of i.
AtLeastCount(i) ==
    Cardinality({j \in 1..Len(sdg_model.proba) :
                    j # i /\ sdg_model.proba[j] >= sdg_model.proba[i]})

\* C22: with a loaded classifier and a probability vector over the 17
\* categories, predict_sdgs returns exactly the categories among the top_k
\* highest probabilities whose probability is at least 0.1: sdg_number is the
\* index plus one, confidence the raw probability, the order non-increasing,
\* no number twice, at most top_k records.
C22_TopKAboveThreshold ==
    TrainedReturned =>
        /\ Len(returned) <= top_k
        /\ \A i \in 1..Len(returned) :
              /\ returned[i].sdg_number \in 1..Len(sdg_labels)
              /\ returned[i].confidence = sdg_model.proba[returned[i].sdg_number]
              /\ returned[i].confidence >= ProbaThreshold
              /\ AboveCount(returned[i].sdg_number) < top_k
              /\ returned[i].sdg_name = LabelName(sdg_labels[returned[i].sdg_number])
        /\ \A i \in 1..Len(returned), j \in 1..Len(returned) :
              i < j => /\ returned[i].confidence >= returned[j].confidence
                       /\ returned[i].sdg_number # returned[j].sdg_number
        /\ \A n \in 1..Len(sdg_labels) :
              (sdg_model.proba[n] >= ProbaThreshold /\ n \notin NumbersOf(returned))
                  => AtLeastCount(n) >= top_k

\* C22 witness: of four categories with a probability of 0.1 or more, the
\* three highest are returned for top_k = 3, and the fourth is left out.
C22_Witness ==
    /\ TrainedReturned
    /\ call = "predict"
    /\ top_k = 3
    /\ [i \in 1..Len(returned) |-> returned[i].sdg_number] = <<2, 7, 9>>
    /\ sdg_model.proba[11] >= ProbaThreshold

\* analyze_sdgs returned the records it built from the classifier's result.
ZeroShotReturned ==
    /\ call = "analyze"
    /\ pc = "returned"
    /\ classifier.loaded
    /\ ~classifier.raises

\* C23 (as claimed): every record of the zero-shot analyze_sdgs has as its
\* sdg_number the place of its label among the 17 SDG_LABELS (counted from
\* one), whatever rank the classifier gave the label.
C23_NumberIsLabelPlace ==
    ZeroShotReturned =>
        \A i \in 1..Len(returned) :
            /\ returned[i].sdg_number = classifier.result[i].label
            /\ returned[i].sdg_name = ZeroShotName(SDG_LABELS[returned[i].sdg_number])

\* C24 (as claimed): on every path of predict_sdgs, the trained classifier's
\* and the fallback's, a record's matched_keywords holds only keywords of the
\* static keyword table of the record's own category that occur in the
\* original text, and at most five of them.
C24_KeywordsOfOwnCategory ==
    PredictReturned =>
        \A i \in 1..Len(returned) :
            /\ Len(returned[i].matched_keywords) <= MaxKeywords
            /\ \A k \in 1..Len(returned[i].matched_keywords) :
                  /\ Contains(Lower(text), returned[i].matched_keywords[k])
                  /\ returned[i].matched_keywords[k]
                         \in Range(sdg_keywords(returned[i].sdg_number))

\* compute_similarities has returned semantic_results.
SimilaritiesComputed == call = "pipeline" /\ pc = "fuse"

\* What ModelLoader.predict_sdgs(text, top_k=5) returns in the state: the
\* records the call inside compute_similarities returned, and with no
\* classifier loaded the fallback's.
Predicted ==
    IF sdg_model.loaded THEN returned ELSE _fallback_prediction(text, SemanticTopK)

\* C25 (as claimed): compute_similarities is a pure reshape of predict_sdgs,
\* with the classifier loaded or not: one record per record of
\* predict_sdgs(text, top_k=5), in the same order, with the same sdg_number
\* and sdg_name and avg_similarity = max_similarity = the record's confidence.
C25_PureReshape ==
    SimilaritiesComputed =>
        /\ Len(semantic_results) = Len(Predicted)
        /\ \A i \in 1..Min(Len(semantic_results), Len(Predicted)) :
              /\ semantic_results[i].sdg_number = Predicted[i].sdg_number
              /\ semantic_results[i].sdg_name = Predicted[i].sdg_name
              /\ semantic_results[i].avg_similarity = Predicted[i].confidence
              /\ semantic_results[i].max_similarity = Predicted[i].confidence

\* generate_explanation has returned its report.
ReportReturned == pc = "done" /\ fuse_calls >= 1

\* The keywords held by the accumulators, those of the top three and the others.
AccumulatorKeywords ==
    UNION {Range(combined_results[i].matched_keywords) : i \in 1..Len(combined_results)}

\* C26: the report's matched_keywords has no keyword twice and at most 20
\* entries, holds only keywords of some accumulator (of the top three or not),
\* and holds all of them when the accumulators hold 20 or fewer distinct ones.
C26_ReportKeywords ==
    ReportReturned =>
        /\ Len(report.matched_keywords) <= MaxReportKeywords
        /\ \A i \in 1..Len(report.matched_keywords), j \in 1..Len(report.matched_keywords) :
              i # j => report.matched_keywords[i] # report.matched_keywords[j]
        /\ Range(report.matched_keywords) \subseteq AccumulatorKeywords
        /\ Cardinality(AccumulatorKeywords) <= MaxReportKeywords
              => Range(report.matched_keywords) = AccumulatorKeywords

\* C26 witness: the accumulators hold more than 20 distinct keywords, one of
\* them of an accumulator outside the top three, and the report lists 20.
C26_Witness ==
    /\ ReportReturned
    /\ Cardinality(AccumulatorKeywords) > MaxReportKeywords
    /\ Len(report.matched_keywords) = MaxReportKeywords
    /\ Len(combined_results) > TopN
    /\ \E k \in Range(report.matched_keywords) :
          \A i \in 1..TopN : k \notin Range(combined_results[i].matched_keywords)

\* The places of top_3_sdgs whose combined_confidence is in [low, high).
PlacesWithin(low, high) ==
    {i \in 1..Len(report.top_3_sdgs) :
        /\ report.top_3_sdgs[i].combined_confidence >= low
        /\ report.top_3_sdgs[i].combined_confidence < high}

\* Above every confidence: the weights sum to 1 and each confidence is at most 1.
Top == 10001

\* C27: generate_explanation returns one explanation per entry of top_3_sdgs,
\* at the same place and with the same sdg_number; its confidence_level is
\* 'high' for a combined_confidence of 0.70 or more, 'medium' from 0.40 up to
\* 0.70, 'low' below; confidence_levels counts these levels and its three
\* counts sum to len(top_3_sdgs).
C27_ExplanationPerEntry ==
    ReportReturned =>
        /\ Len(report.explanations) = Len(report.top_3_sdgs)
        /\ \A i \in 1..Len(report.top_3_sdgs) :
              /\ report.explanations[i].sdg_number = report.top_3_sdgs[i].sdg_number
              /\ report.explanations[i].confidence_level =
                    (IF i \in PlacesWithin(HighLevel, Top) THEN "high"
                     ELSE IF i \in PlacesWithin(MediumLevel, HighLevel) THEN "medium"
                     ELSE "low")
        /\ report.confidence_levels.high = Cardinality(PlacesWithin(HighLevel, Top))
        /\ report.confidence_levels.medium = Cardinality(PlacesWithin(MediumLevel, HighLevel))
        /\ report.confidence_levels.low = Cardinality(PlacesWithin(0, MediumLevel))
        /\ report.confidence_levels.high + report.confidence_levels.medium
              + report.confidence_levels.low = Len(report.top_3_sdgs)

\* C27 witness: three entries, one of each level, the 'medium' one with a
\* combined_confidence of 0.40 itself.
C27_Witness ==
    /\ ReportReturned
    /\ report.confidence_levels = [high |-> 1, medium |-> 1, low |-> 1]
    /\ \E i \in 1..Len(report.top_3_sdgs) :
          /\ report.top_3_sdgs[i].combined_confidence = MediumLevel
          /\ report.explanations[i].confidence_level = "medium"

\* C28 (as claimed): in every explanation the confidence_level agrees with the
\* confidence_score reported beside it (the combined confidence rounded to
\* three decimals): 'high' exactly when the score is 0.7 or more, 'medium'
\* exactly when it is from 0.4 up to 0.7, also just below a threshold.
C28_LevelAgreesWithScore ==
    ReportReturned =>
        \A i \in 1..Len(report.explanations) :
            /\ report.explanations[i].confidence_level = "high"
                  <=> report.explanations[i].confidence_score >= HighLevel
            /\ report.explanations[i].confidence_level = "medium"
                  <=> /\ report.explanations[i].confidence_score >= MediumLevel
                      /\ report.explanations[i].confidence_score < HighLevel

\* The handler has returned its response.
Responded == call \in UploadHandlers /\ pc = "responded"

\* C29 (as claimed): once upload_file, api_extract or extract has returned its
\* response, the temporary file and the temporary directory it made for the
\* upload exist no more, on success and on every failure after the save.
C29_TempFilesRemoved ==
    Responded => (~temp_file /\ ~temp_dir)

====
